---------------------------- MODULE Spec2Model ----------------------------
(***************************************************************************)
(* A model of src/app.js: the moving-average filter, the FFT cadence       *)
(* estimator, the automatic calibrator, the repetition detector, and the   *)
(* page's event handlers (motion events, clicks, timers, promise           *)
(* continuations) that drive them.                                         *)
(*                                                                         *)
(* Numbers.  Accelerations are integers in units of 1/600 m/s^2 (the       *)
(* definition Unit), so that every threshold of the source is an integer   *)
(* (0.7 -> 420, 0.25 -> 150, ...) and the mean of up to five raw samples   *)
(* that are multiples of 0.1 m/s^2 is an integer too.  Times are integer   *)
(* milliseconds.  A variance is kept as an exact fraction [num, den].      *)
(* -Infinity / +Infinity are the sentinels NegInf / PosInf, null is the    *)
(* record Null.                                                            *)
(***************************************************************************)
EXTENDS Integers, Sequences, FiniteSets, TLC

VARIABLES
    \* ---- the program's objects (src/app.js:583-619)
    axisFilter,           \* MovingAverageFilter.window
    repDetector,          \* RepDetector instance
    autoCalibrator,       \* AutoCalibrator instance
    cadenceEstimator,     \* FFTCadenceEstimator instance
    isRunning,            \* global flag
    isCalibrating,        \* global flag
    calibratedThresholds, \* global: Null or a threshold set
    storedThresholds,     \* localStorage 'calibratedThresholds'
    detectedAxis,         \* global: "x" | "y" | "z"
    lastSampleTime,       \* global: rate limiter timestamp
    dataPoints,           \* chart buffers
    \* ---- the browser: event loop, listeners, timers, clock
    listeners,            \* 'devicemotion' listeners in registration order
    tasks,                \* running async functions (toggleMonitoring / startCalibration)
    timers,               \* pending setTimeout callbacks, in creation order
    micro,                \* promise-continuation (microtask) queue
    dispatch,             \* the motion event being dispatched: listeners still to run
    ui,                   \* the calibration panel and the start button's label
    now,                  \* Date.now()
    permissionApi,        \* DeviceMotionEvent.requestPermission exists (iOS 13+)
    fftLoaded,            \* the global FFT (fft.js) is defined
    \* ---- the environment's budget
    feed,                 \* samples the device is about to deliver (a scripted burst)
    used,                 \* how many ticks / clicks / events / cycles were used
    \* ---- observation of the run (history variables)
    call,                 \* the last operation, its arguments and what it returned
    fed,                  \* the values passed to axisFilter since construction or reset
    emitted,              \* threshold sets returned by processValue since startCalibration
    cancelled,            \* a session was cancelled and none was started since
    samplesInSession,     \* samples handleMotion processed since monitoring last began
    acceptedAt            \* when the last sample was passed to axisFilter: Null or [v |-> t]

vars == <<axisFilter, repDetector, autoCalibrator, cadenceEstimator, isRunning,
          isCalibrating, calibratedThresholds, storedThresholds, detectedAxis,
          lastSampleTime, dataPoints, listeners, tasks, timers, micro, dispatch,
          ui, now, permissionApi, fftLoaded, feed, used, call, fed, emitted,
          cancelled, samplesInSession, acceptedAt>>

-----------------------------------------------------------------------------
(* Numbers *)

Unit == 6 * 100
PosInf == 1000000
NegInf == -1000000
Null == [null |-> TRUE]
IsNull(v) == DOMAIN v = {"null"}
\* two values, each null or a number, are the same
SameValue(a, b) == ToString(a) = ToString(b)

Max(a, b) == IF a >= b THEN a ELSE b
Min(a, b) == IF a <= b THEN a ELSE b
Abs(a) == IF a < 0 THEN -a ELSE a

RECURSIVE SumSeq(_)
SumSeq(s) == IF s = <<>> THEN 0 ELSE Head(s) + SumSeq(Tail(s))

RECURSIVE SumSq(_)
SumSq(s) == IF s = <<>> THEN 0 ELSE Head(s) * Head(s) + SumSq(Tail(s))

\* floor of the square root
RECURSIVE ISqrtBetween(_, _, _)
ISqrtBetween(n, lo, hi) ==
    IF lo >= hi THEN lo
    ELSE LET mid == (lo + hi + 1) \div 2
         IN  IF mid * mid <= n THEN ISqrtBetween(n, mid, hi)
             ELSE ISqrtBetween(n, lo, mid - 1)
ISqrt(n) == IF n <= 0 THEN 0 ELSE ISqrtBetween(n, 0, Min(n, 46340))

-----------------------------------------------------------------------------
(* MovingAverageFilter (src/app.js:13-36) *)

\* new MovingAverageFilter(windowSize)
newFilter(windowSize) == [windowSize |-> windowSize, window |-> <<>>]

\* getAverage(): 0 for an empty window, else sum / length
getAverage(f) ==
    IF Len(f.window) = 0 THEN 0 ELSE SumSeq(f.window) \div Len(f.window)

\* the mutant: evicts as soon as the window is full
pushAndEvict_EvictEarly(f, value) ==
    LET w == Append(f.window, value)
    IN  [f EXCEPT !.window = IF Len(w) >= f.windowSize THEN Tail(w) ELSE w]

\* addValue's push and shift
pushAndEvict(f, value) ==
    LET w == Append(f.window, value)
    IN  [f EXCEPT !.window = IF Len(w) > f.windowSize THEN Tail(w) ELSE w]

\* addValue(value): the filter after the call and the returned average
addValue(f, value) ==
    LET g == pushAndEvict(f, value)
    IN  [f |-> g, ret |-> getAverage(g)]

\* reset()
filterReset(f) == [f EXCEPT !.window = <<>>]

-----------------------------------------------------------------------------
(* RepDetector (src/app.js:396-547) *)

\* the accumulator's cleared form
ClearedRepData == [maxZ |-> NegInf, minZ |-> PosInf, zValues |-> <<>>, duration |-> 0]

defaultThresholds ==
    [upwardAcceleration   |-> (7 * Unit) \div 10,
     downwardAcceleration |-> -((5 * Unit) \div 10),
     minRepDuration       |-> 700,
     maxRepDuration       |-> 5000,
     stableThreshold      |-> (25 * Unit) \div 100,
     minAmplitude         |-> (9 * Unit) \div 10]

\* { ...a, ...b }: b's fields override a's
Merge(a, b) ==
    [k \in DOMAIN a \cup DOMAIN b |-> IF k \in DOMAIN b THEN b[k] ELSE a[k]]

\* new RepDetector(customThresholds)
newRepDetector(customThresholds) ==
    [state |-> "IDLE",
     repCount |-> 0,
     currentRepStartTime |-> Null,
     currentRepData |-> ClearedRepData,
     thresholds |-> IF IsNull(customThresholds) THEN defaultThresholds
                    ELSE Merge(defaultThresholds, customThresholds),
     lastQuality |-> 0,
     lastRepTime |-> 0,
     cooldownPeriod |-> 400]

\* a setThresholds that merges into the defaults, as the constructor does
setThresholds_OverDefaults(rd, thresholds) ==
    [rd EXCEPT !.thresholds = Merge(defaultThresholds, thresholds)]

\* setThresholds(thresholds)
setThresholds(rd, thresholds) ==
    [rd EXCEPT !.thresholds = Merge(rd.thresholds, thresholds)]

\* the sample variance (divisor n - 1) in the place of the population one
calculateVariance_Sample(values) ==
    LET n == Len(values)
        S == SumSeq(values)
    IN  [num |-> n * SumSq(values) - S * S, den |-> n * (n - 1)]

\* calculateVariance(values) as the exact fraction num / den
\* (mean = S/n, variance = sum (v - S/n)^2 / n = (n * sum v^2 - S^2) / n^2)
calculateVariance(values) ==
    LET n == Len(values)
        S == SumSeq(values)
    IN  [num |-> n * SumSq(values) - S * S, den |-> n * n]

\* variance > tenths/10 (m/s^2)^2
VarianceGT(var, tenths) == var.num > tenths * ((Unit * Unit) \div 10) * var.den

\* a score with tripled deductions and no final clamp
calculateRepQuality_TripledUnclamped(data) ==
    LET durationDiff == Abs(data.duration - 2000)
        range == data.maxZ - data.minZ
    IN  100 - (IF durationDiff > 1000 THEN 45 ELSE IF durationDiff > 500 THEN 24 ELSE 0)
            - (IF range < Unit THEN 60 ELSE IF 10 * range < 15 * Unit THEN 30 ELSE 0)

\* calculateRepQuality(): reads this.currentRepData
calculateRepQuality(data) ==
    LET idealDuration == 2000
        durationDiff == Abs(data.duration - idealDuration)
        q1 == IF durationDiff > 1000 THEN 100 - 15
              ELSE IF durationDiff > 500 THEN 100 - 8 ELSE 100
        range == data.maxZ - data.minZ
        q2 == IF range < Unit THEN q1 - 20
              ELSE IF 10 * range < 15 * Unit THEN q1 - 10 ELSE q1
        q3 == IF Len(data.zValues) > 2
              THEN LET variance == calculateVariance(data.zValues)
                   IN  IF VarianceGT(variance, 15) THEN q2 - 15
                       ELSE IF VarianceGT(variance, 8) THEN q2 - 8 ELSE q2
              ELSE q2
    IN  Max(0, Min(100, q3))

\* the mutant: the score is computed after the accumulator was cleared
completeRep_ScoreAfterClear(rd, timestamp) ==
    [rd EXCEPT !.repCount = rd.repCount + 1,
               !.lastRepTime = timestamp,
               !.lastQuality = calculateRepQuality(ClearedRepData),
               !.currentRepData = ClearedRepData]

\* completeRep(timestamp)
completeRep(rd, timestamp) ==
    [rd EXCEPT !.repCount = rd.repCount + 1,
               !.lastRepTime = timestamp,
               !.lastQuality = calculateRepQuality(rd.currentRepData),
               !.currentRepData = ClearedRepData]

\* the mutant: the cooldown gate is dropped
repIsValid_NoCooldown(rd, timestamp) ==
    LET amplitude == rd.currentRepData.maxZ - rd.currentRepData.minZ
    IN  /\ rd.currentRepData.duration >= rd.thresholds.minRepDuration
        /\ rd.currentRepData.duration <= rd.thresholds.maxRepDuration
        /\ amplitude >= rd.thresholds.minAmplitude

\* the validity test of the LOWERING case (duration already stored)
repIsValid(rd, timestamp) ==
    LET timeSinceLastRep == timestamp - rd.lastRepTime
        amplitude == rd.currentRepData.maxZ - rd.currentRepData.minZ
    IN  /\ rd.currentRepData.duration >= rd.thresholds.minRepDuration
        /\ rd.currentRepData.duration <= rd.thresholds.maxRepDuration
        /\ amplitude >= rd.thresholds.minAmplitude
        /\ timeSinceLastRep >= rd.cooldownPeriod

\* an accumulation that does not follow the minimum
accumulate_NoMin(rd, z) ==
    IF rd.state # "IDLE"
    THEN [rd EXCEPT !.currentRepData.zValues = Append(@, z),
                    !.currentRepData.maxZ = Max(@, z)]
    ELSE rd

\* the accumulation at the head of processAcceleration
accumulate(rd, z) ==
    IF rd.state # "IDLE"
    THEN [rd EXCEPT !.currentRepData.zValues = Append(@, z),
                    !.currentRepData.maxZ = Max(@, z),
                    !.currentRepData.minZ = Min(@, z)]
    ELSE rd

\* an IDLE test that also fires at the threshold itself
liftStarts_AtThreshold(rd, z) == z >= rd.thresholds.upwardAcceleration

\* `z > this.thresholds.upwardAcceleration` in IDLE
liftStarts(rd, z) == z > rd.thresholds.upwardAcceleration

\* a PULLING_UP test without the lower bound
topReached_StableOnly(rd, z) == z < rd.thresholds.stableThreshold

\* the PULLING_UP test (line 450)
topReached(rd, z) ==
    z < rd.thresholds.stableThreshold /\ z > rd.thresholds.downwardAcceleration

\* a lift from IDLE that keeps the start time of the repetition before it
startRep_KeepsEarlierStart(rd, z, timestamp) ==
    [rd EXCEPT !.state = "PULLING_UP",
               !.currentRepStartTime =
                   IF SameValue(rd.currentRepStartTime, Null) THEN timestamp ELSE @,
               !.currentRepData =
                   [maxZ |-> z, minZ |-> z, zValues |-> <<z>>, duration |-> 0]]

\* the IDLE branch for `z > this.thresholds.upwardAcceleration` (lines 438-445)
startRep(rd, z, timestamp) ==
    [rd EXCEPT !.state = "PULLING_UP",
               !.currentRepStartTime = timestamp,
               !.currentRepData =
                   [maxZ |-> z, minZ |-> z, zValues |-> <<z>>, duration |-> 0]]

\* a second lift that gives the repetition up once it has lasted longer than
\* maxRepDuration
pumpAgain_AbandonsLate(rd, z, timestamp) ==
    IF timestamp - rd.currentRepStartTime > rd.thresholds.maxRepDuration
    THEN [rd EXCEPT !.state = "IDLE", !.currentRepData = ClearedRepData]
    ELSE [rd EXCEPT !.state = "PULLING_UP"]

\* a second lift that starts the repetition over, as the lift from IDLE does
pumpAgain_Restarts(rd, z, timestamp) ==
    [rd EXCEPT !.state = "PULLING_UP",
               !.currentRepStartTime = timestamp,
               !.currentRepData =
                   [maxZ |-> z, minZ |-> z, zValues |-> <<z>>, duration |-> 0]]

\* the AT_TOP branch for `z > this.thresholds.upwardAcceleration`: only the
\* phase is assigned
pumpAgain(rd, z, timestamp) == [rd EXCEPT !.state = "PULLING_UP"]

\* processAcceleration(z, timestamp): the detector after the call
processAcceleration(rd0, z, timestamp) ==
    LET rd == accumulate(rd0, z)
        th == rd.thresholds
    IN  CASE rd.state = "IDLE" ->
              IF liftStarts(rd, z) THEN startRep(rd, z, timestamp) ELSE rd
          [] rd.state = "PULLING_UP" ->
              IF topReached(rd, z)
              THEN [rd EXCEPT !.state = "AT_TOP"]
              ELSE rd
          [] rd.state = "AT_TOP" ->
              IF z < th.downwardAcceleration THEN [rd EXCEPT !.state = "LOWERING"]
              ELSE IF z > th.upwardAcceleration THEN pumpAgain(rd, z, timestamp)
              ELSE rd
          [] rd.state = "LOWERING" ->
              IF z > th.downwardAcceleration /\ z < th.upwardAcceleration
              THEN LET timed == [rd EXCEPT !.currentRepData.duration =
                                               timestamp - rd.currentRepStartTime]
                       done == IF repIsValid(timed, timestamp)
                               THEN completeRep(timed, timestamp) ELSE timed
                   IN  [done EXCEPT !.state = "IDLE"]
              ELSE rd

\* what processAcceleration returns
repResult(rd) == [state |-> rd.state, repCount |-> rd.repCount, quality |-> rd.lastQuality]

\* a reset that keeps the time of the last repetition
repReset_KeepsLastRepTime(rd) ==
    [rd EXCEPT !.state = "IDLE",
               !.repCount = 0,
               !.currentRepStartTime = Null,
               !.currentRepData = ClearedRepData,
               !.lastQuality = 0]

\* a reset that keeps the score of the last repetition
repReset_KeepsLastQuality(rd) ==
    [rd EXCEPT !.state = "IDLE",
               !.repCount = 0,
               !.currentRepStartTime = Null,
               !.currentRepData = ClearedRepData,
               !.lastRepTime = 0]

\* reset()
repReset(rd) ==
    [rd EXCEPT !.state = "IDLE",
               !.repCount = 0,
               !.currentRepStartTime = Null,
               !.currentRepData = ClearedRepData,
               !.lastQuality = 0,
               !.lastRepTime = 0]

-----------------------------------------------------------------------------
(* AutoCalibrator (src/app.js:239-393) *)

CALIBRATION_TARGET_REPS == 5

ClearedCalData == [maxZ |-> NegInf, minZ |-> PosInf, zValues |-> <<>>, startTime |-> Null]

\* new AutoCalibrator()
newAutoCalibrator ==
    [repsData |-> <<>>,
     isCalibrating |-> FALSE,
     repCount |-> 0,
     targetReps |-> CALIBRATION_TARGET_REPS,
     currentRepData |-> ClearedCalData,
     state |-> "IDLE",
     lastTransitionTime |-> 0]

\* startCalibration(); t is Date.now()
acStartCalibration(ac, t) ==
    [ac EXCEPT !.isCalibrating = TRUE,
               !.repsData = <<>>,
               !.repCount = 0,
               !.currentRepData = ClearedCalData,
               !.state = "IDLE",
               !.lastTransitionTime = t]

\* a stopCalibration that leaves the calibrator as it is
acStopCalibration_NoOp(ac) == ac

\* stopCalibration()
acStopCalibration(ac) == [ac EXCEPT !.isCalibrating = FALSE]

\* AutoCalibrator.calculateVariance(values) as an exact fraction (0 when empty)
acCalculateVariance(values) ==
    IF Len(values) = 0 THEN [num |-> 0, den |-> 1] ELSE calculateVariance(values)

\* the field f of every record of repsData
Column(repsData, f) == [i \in 1..Len(repsData) |-> repsData[i][f]]

\* n * (population standard deviation of values), rounded down
NTimesStd(values) ==
    ISqrt(Len(values) * SumSq(values) - SumSeq(values) * SumSeq(values))

\* thresholds without the limits 0.4 and -0.3
derivedThresholds_NoLimits(repsData) ==
    LET maxZValues == Column(repsData, "maxZ")
        minZValues == Column(repsData, "minZ")
        amplitudes == Column(repsData, "amplitude")
        n == Len(repsData)
    IN  [upwardAcceleration |->
             (10 * SumSeq(maxZValues) - 8 * NTimesStd(maxZValues)) \div (10 * n),
         downwardAcceleration |->
             (10 * SumSeq(minZValues) + 8 * NTimesStd(minZValues)) \div (10 * n),
         minAmplitude |-> (6 * SumSeq(amplitudes)) \div (10 * n),
         minRepDuration |-> 700,
         maxRepDuration |-> 5000,
         stableThreshold |-> (25 * Unit) \div 100]

\* thresholds with the deviations applied the other way round
derivedThresholds_DeviationSignsSwapped(repsData) ==
    LET maxZValues == Column(repsData, "maxZ")
        minZValues == Column(repsData, "minZ")
        amplitudes == Column(repsData, "amplitude")
        n == Len(repsData)
    IN  [upwardAcceleration |->
             Max((4 * Unit) \div 10,
                 (10 * SumSeq(maxZValues) + 8 * NTimesStd(maxZValues)) \div (10 * n)),
         downwardAcceleration |->
             Min(-((3 * Unit) \div 10),
                 (10 * SumSeq(minZValues) - 8 * NTimesStd(minZValues)) \div (10 * n)),
         minAmplitude |-> (6 * SumSeq(amplitudes)) \div (10 * n),
         minRepDuration |-> 700,
         maxRepDuration |-> 5000,
         stableThreshold |-> (25 * Unit) \div 100]

\* the threshold object of calculateThresholds; each quotient is rounded
\* down to the model's unit
derivedThresholds(repsData) ==
    LET maxZValues == Column(repsData, "maxZ")
        minZValues == Column(repsData, "minZ")
        amplitudes == Column(repsData, "amplitude")
        n == Len(repsData)
    IN  [upwardAcceleration |->
             Max((4 * Unit) \div 10,
                 (10 * SumSeq(maxZValues) - 8 * NTimesStd(maxZValues)) \div (10 * n)),
         downwardAcceleration |->
             Min(-((3 * Unit) \div 10),
                 (10 * SumSeq(minZValues) + 8 * NTimesStd(minZValues)) \div (10 * n)),
         minAmplitude |-> (6 * SumSeq(amplitudes)) \div (10 * n),
         minRepDuration |-> 700,
         maxRepDuration |-> 5000,
         stableThreshold |-> (25 * Unit) \div 100]

\* the mutant: the calibrator stays active after producing the thresholds
calculateThresholds_StaysActive(ac) ==
    IF Len(ac.repsData) = 0
    THEN [ac |-> ac, ret |-> Null]
    ELSE [ac |-> ac,
          ret |-> [success |-> TRUE,
                   thresholds |-> derivedThresholds(ac.repsData),
                   stats |-> [repsDetected |-> Len(ac.repsData)]]]

\* calculateThresholds(): the calibrator after the call and what it returns
calculateThresholds(ac) ==
    IF Len(ac.repsData) = 0
    THEN [ac |-> ac, ret |-> Null]
    ELSE [ac |-> [ac EXCEPT !.isCalibrating = FALSE],
          ret |-> [success |-> TRUE,
                   thresholds |-> derivedThresholds(ac.repsData),
                   stats |-> [repsDetected |-> Len(ac.repsData)]]]

\* a validity test that rejects the shortest and the longest duration
candidateIsValid_OpenRange(duration, amplitude) ==
    duration > 500 /\ duration < 5000 /\ 10 * amplitude >= 8 * Unit

\* the validity test of a candidate repetition
candidateIsValid(duration, amplitude) ==
    duration >= 500 /\ duration <= 5000 /\ 10 * amplitude >= 8 * Unit

\* what processValue returns when it does not finish the calibration
progress(ac) == [repCount |-> ac.repCount, targetReps |-> ac.targetReps]

\* the MOVING case of processValue
processMoving(ac0, z, timestamp) ==
    LET ac == [ac0 EXCEPT !.currentRepData.zValues = Append(@, z),
                          !.currentRepData.maxZ = Max(@, z),
                          !.currentRepData.minZ = Min(@, z)]
        data == ac.currentRepData
        duration == timestamp - data.startTime
        amplitude == data.maxZ - data.minZ
        counted == [ac EXCEPT !.repsData = Append(@,
                                  [maxZ |-> data.maxZ, minZ |-> data.minZ,
                                   amplitude |-> amplitude, duration |-> duration,
                                   variance |-> acCalculateVariance(data.zValues)]),
                              !.repCount = @ + 1]
        cooled(a) == [a EXCEPT !.state = "COOLDOWN", !.lastTransitionTime = timestamp]
    IN  IF 10 * Abs(z) < 3 * Unit /\ Len(data.zValues) > 15
        THEN IF candidateIsValid(duration, amplitude)
             THEN IF counted.repCount >= counted.targetReps
                  THEN calculateThresholds(counted)
                  ELSE [ac |-> cooled(counted), ret |-> progress(counted)]
             ELSE [ac |-> cooled(ac), ret |-> progress(ac)]
        ELSE [ac |-> ac, ret |-> progress(ac)]

\* processValue(z, timestamp): the calibrator after the call and what it returns
processValue(ac, z, timestamp) ==
    IF ~ac.isCalibrating THEN [ac |-> ac, ret |-> Null]
    ELSE CASE ac.state = "IDLE" ->
                  IF 10 * Abs(z) > 6 * Unit
                  THEN LET a == [ac EXCEPT !.state = "MOVING",
                                           !.currentRepData =
                                               [maxZ |-> z, minZ |-> z, zValues |-> <<z>>,
                                                startTime |-> timestamp]]
                       IN  [ac |-> a, ret |-> progress(a)]
                  ELSE [ac |-> ac, ret |-> progress(ac)]
           [] ac.state = "MOVING" -> processMoving(ac, z, timestamp)
           [] ac.state = "COOLDOWN" ->
                  IF timestamp - ac.lastTransitionTime > 500
                  THEN [ac |-> [ac EXCEPT !.state = "IDLE"], ret |-> progress(ac)]
                  ELSE [ac |-> ac, ret |-> progress(ac)]

\* getProgress(), in percent, rounded down
getProgress(ac) == IF ac.targetReps > 0 THEN (ac.repCount * 100) \div ac.targetReps ELSE 0

-----------------------------------------------------------------------------
(* FFTCadenceEstimator (src/app.js:115-236).  The transform itself is the   *)
(* library fft.js: the bin it makes win and that bin's power are inputs of  *)
(* addSample here.  Frequencies are in mHz, rounded down.                   *)

fftSize == 128
updateEvery == 4
fMinMilliHz == 200
fMaxMilliHz == 5000
smoothingAlphaPct == 35
samplingInterval == 33

\* Math.round(1000 / samplingInterval)
initialSampleRateHz == (2 * 1000 + samplingInterval) \div (2 * samplingInterval)

\* an _ensureFft that does not look whether FFT is defined
ensureFft_AssumesLoaded(ce, loaded) ==
    [ce EXCEPT !._fft = TRUE, !._fftAvailable = TRUE]

\* _ensureFft(): loaded is whether the global FFT is defined
ensureFft(ce, loaded) ==
    IF ce._fft THEN ce
    ELSE IF ~loaded THEN [ce EXCEPT !._fftAvailable = FALSE]
    ELSE [ce EXCEPT !._fft = TRUE, !._fftAvailable = TRUE]

\* new FFTCadenceEstimator({...}) as the page constructs it
newCadenceEstimator(loaded) ==
    ensureFft([sampleRateHz |-> initialSampleRateHz,
               _index |-> 0,
               _filled |-> FALSE,
               _samplesSeen |-> 0,
               _ring |-> [i \in 1..fftSize |-> 0],
               lastFrequencyHz |-> 0,
               lastPower |-> 0,
               _fft |-> FALSE,
               _fftAvailable |-> FALSE], loaded)

\* setSampleRate(hz)
setSampleRate(ce, hz) == [ce EXCEPT !.sampleRateHz = Max(1, hz)]

\* reset()
cadenceReset(ce) ==
    [ce EXCEPT !._index = 0,
               !._filled = FALSE,
               !._samplesSeen = 0,
               !._ring = [i \in 1..fftSize |-> 0],
               !.lastFrequencyHz = 0,
               !.lastPower = 0]

\* a copy of the ring buffer that starts at its first cell
temporalOrder_FromFirstCell(ce) == [i \in 1..fftSize |-> ce._ring[i]]

\* the ring buffer copied in temporal order, oldest sample first
temporalOrder(ce) ==
    [i \in 1..fftSize |-> ce._ring[((ce._index + (i - 1)) % fftSize) + 1]]

\* kMin and kMax of the band
kMin(ce) == Max(1, (fMinMilliHz * fftSize + 1000 * ce.sampleRateHz - 1)
                       \div (1000 * ce.sampleRateHz))
kMax(ce) == Min(fftSize \div 2, (fMaxMilliHz * fftSize) \div (1000 * ce.sampleRateHz))

\* the write into the ring and the counters
ringWrite(ce, value) ==
    LET idx == (ce._index + 1) % fftSize
    IN  [ce EXCEPT !._ring[ce._index + 1] = value,
                   !._index = idx,
                   !._filled = (@ \/ idx = 0),
                   !._samplesSeen = @ + 1]

\* `kMax <= kMin`: no bin to choose from
bandIsEmpty_Never(ce) == FALSE
bandIsEmpty(ce) == kMax(ce) <= kMin(ce)

\* a throttle that lets every call through once the ring is full
estimateDue_EveryCall(ce) ==
    ce._filled /\ ce._fft

\* an estimate is due after this write
estimateDue(ce) ==
    ce._filled /\ ce._fft /\ ce._samplesSeen % updateEvery = 0

\* addSample(value): the estimator after the call and what it returns;
\* bestK and bestMag2 are the transform's winning bin and its power
addSample(ce0, value, loaded, bestK, bestMag2) ==
    LET ce1 == IF ce0._fftAvailable THEN ce0 ELSE ensureFft(ce0, loaded)
    IN  IF ~ce1._fftAvailable THEN [ce |-> ce1, ret |-> Null]
        ELSE LET ce == ringWrite(ce1, value)
             IN  IF ~estimateDue(ce) THEN [ce |-> ce, ret |-> Null]
                 ELSE IF bandIsEmpty(ce) THEN [ce |-> ce, ret |-> Null]
                 ELSE LET freqHz == (bestK * ce.sampleRateHz * 1000) \div fftSize
                          smoothedHz ==
                              IF ce.lastFrequencyHz # 0
                              THEN (smoothingAlphaPct * freqHz
                                    + (100 - smoothingAlphaPct) * ce.lastFrequencyHz) \div 100
                              ELSE freqHz
                      IN  [ce |-> [ce EXCEPT !.lastFrequencyHz = smoothedHz,
                                             !.lastPower = bestMag2],
                           ret |-> [frequencyHz |-> smoothedHz, power |-> bestMag2]]

\* _timeDomain as addSample(value) fills it before the mean is removed
\* (lines 196-198), or null when the call returns before that
timeDomainOf(ce0, value, loaded) ==
    LET ce1 == IF ce0._fftAvailable THEN ce0 ELSE ensureFft(ce0, loaded)
        ce == ringWrite(ce1, value)
    IN  IF ce1._fftAvailable /\ estimateDue(ce) THEN temporalOrder(ce) ELSE Null

\* the bins the transform may make win for this call (one dummy when no
\* estimate is computed)
binChoices(ce0, loaded) ==
    LET ce1 == IF ce0._fftAvailable THEN ce0 ELSE ensureFft(ce0, loaded)
        ce == ringWrite(ce1, 0)
    IN  IF ce1._fftAvailable /\ estimateDue(ce) /\ ~bandIsEmpty(ce)
        THEN kMin(ce)..kMax(ce) ELSE {0}

-----------------------------------------------------------------------------
(* The state after the page has loaded (src/app.js:583-619, 1193-1209) *)

MAX_DATA_POINTS == 100

NoBudgetUsed == [calls |-> 0, ticks |-> 0, clicks |-> 0, events |-> 0, cycles |-> 0]

\* everything but what the environment decides
InitProgram ==
    /\ axisFilter = newFilter(5)
    /\ repDetector = newRepDetector(Null)
    /\ autoCalibrator = newAutoCalibrator
    /\ isRunning = FALSE
    /\ isCalibrating = FALSE
    /\ detectedAxis = "y"
    /\ lastSampleTime = 0
    /\ dataPoints = [labels |-> <<>>, x |-> <<>>, y |-> <<>>, z |-> <<>>]
    /\ listeners = <<>>
    /\ tasks = <<>>
    /\ timers = <<>>
    /\ micro = <<>>
    /\ dispatch = [ev |-> Null, todo |-> <<>>, handled |-> {}]
    /\ ui = [panel |-> FALSE, startBtn |-> "Iniciar"]
    /\ feed = <<>>
    /\ used = NoBudgetUsed
    /\ call = [op |-> "load"]
    /\ fed = <<>>
    /\ emitted = 0
    /\ cancelled = FALSE
    /\ samplesInSession = 0
    /\ acceptedAt = Null

\* a page with nothing saved, fft.js loaded, no permission API, at time 0
InitPlain ==
    /\ InitProgram
    /\ now = 0
    /\ permissionApi = FALSE
    /\ fftLoaded = TRUE
    /\ cadenceEstimator = newCadenceEstimator(TRUE)
    /\ storedThresholds = Null
    /\ calibratedThresholds = Null

appVarsButFeed == <<isRunning, isCalibrating, calibratedThresholds, storedThresholds,
                    detectedAxis, lastSampleTime, dataPoints, listeners, tasks, timers,
                    micro, dispatch, ui, permissionApi, fftLoaded, cancelled,
                    samplesInSession, acceptedAt>>
appVars == <<appVarsButFeed, feed>>

-----------------------------------------------------------------------------
(* SpecFilter: a MovingAverageFilter driven call by call *)

MaxFed == 7
RawStep == Unit \div 10
FilterInputs == {-(12 * RawStep), 0, RawStep, 10 * RawStep}
WindowSizes == {1, 2, 5}

FilterConstruct(w) ==
    /\ call.op = "load"
    /\ axisFilter' = newFilter(w)
    /\ fed' = <<>>
    /\ call' = [op |-> "new", v |-> w]
    /\ UNCHANGED <<repDetector, autoCalibrator, cadenceEstimator, now, used, emitted>>
    /\ UNCHANGED appVars

FilterAdd(v) ==
    /\ call.op # "load"
    /\ Len(fed) < MaxFed
    /\ LET r == addValue(axisFilter, v)
       IN  /\ axisFilter' = r.f
           /\ call' = [op |-> "addValue", v |-> v, ret |-> r.ret]
    /\ fed' = Append(fed, v)
    /\ UNCHANGED <<repDetector, autoCalibrator, cadenceEstimator, now, used, emitted>>
    /\ UNCHANGED appVars

FilterReset ==
    /\ call.op = "addValue"
    /\ axisFilter' = filterReset(axisFilter)
    /\ fed' = <<>>
    /\ call' = [op |-> "reset"]
    /\ UNCHANGED <<repDetector, autoCalibrator, cadenceEstimator, now, used, emitted>>
    /\ UNCHANGED appVars

NextFilter ==
    \/ \E w \in WindowSizes : FilterConstruct(w)
    \/ \E v \in FilterInputs : FilterAdd(v)
    \/ FilterReset

SpecFilter == InitPlain /\ [][NextFilter]_vars

-----------------------------------------------------------------------------
(* SpecRep: a RepDetector driven call by call, with timestamps that never   *)
(* decrease                                                                 *)

MaxCalls == 7
RepInputs == {0, (8 * Unit) \div 10, -((6 * Unit) \div 10)}
RepDts == {90, 2600}
\* partial threshold objects a caller may pass
RepCustomSets == {Null, [minAmplitude |-> 2 * Unit], [minRepDuration |-> 200]}

RepConstruct(custom) ==
    /\ call.op = "load"
    /\ repDetector' = newRepDetector(custom)
    /\ call' = [op |-> "new"]
    /\ UNCHANGED <<axisFilter, autoCalibrator, cadenceEstimator, now, used, fed, emitted>>
    /\ UNCHANGED appVars

RepProcess(z, dt) ==
    /\ call.op # "load"
    /\ used.calls < MaxCalls
    /\ now' = now + dt
    /\ repDetector' = processAcceleration(repDetector, z, now')
    /\ call' = [op |-> "processAcceleration", z |-> z, t |-> now',
                ret |-> repResult(repDetector')]
    /\ used' = [used EXCEPT !.calls = @ + 1]
    /\ UNCHANGED <<axisFilter, autoCalibrator, cadenceEstimator, fed, emitted>>
    /\ UNCHANGED appVars

RepSetThresholds(custom) ==
    /\ call.op = "processAcceleration"
    /\ ~IsNull(custom)
    /\ repDetector' = setThresholds(repDetector, custom)
    /\ call' = [op |-> "setThresholds", thresholds |-> custom]
    /\ UNCHANGED <<axisFilter, autoCalibrator, cadenceEstimator, now, used, fed, emitted>>
    /\ UNCHANGED appVars

RepReset ==
    /\ call.op = "processAcceleration"
    /\ repDetector' = repReset(repDetector)
    /\ call' = [op |-> "reset", before |-> repResult(repDetector)]
    /\ UNCHANGED <<axisFilter, autoCalibrator, cadenceEstimator, now, used, fed, emitted>>
    /\ UNCHANGED appVars

NextRep ==
    \/ \E custom \in RepCustomSets : RepConstruct(custom)
    \/ \E z \in RepInputs, dt \in RepDts : RepProcess(z, dt)
    \/ \E custom \in RepCustomSets : RepSetThresholds(custom)
    \/ RepReset

SpecRep == InitPlain /\ [][NextRep]_vars

-----------------------------------------------------------------------------
(* SpecCal: an AutoCalibrator driven call by call.  The samples come in     *)
(* cycles: a pause, a run of samples at one level, and a closing sample     *)
(* near zero.                                                               *)

MaxCycles == 6

Sample(v, dt) == [v |-> v, dt |-> dt]
Repeat(n, item) == [i \in 1..n |-> item]

\* a pause of 600 ms, k samples at level hi spaced dt, then one at level lo
Cycle(k, hi, lo, dt) ==
    <<Sample(0, 600)>> \o Repeat(k, Sample(hi, dt)) \o <<Sample(lo, dt)>>

CalCycles ==
    { Cycle(15, Unit, 0, 40),                                  \* 1.0 down to 0, 600 ms
      Cycle(15, (12 * Unit) \div 10, -((2 * Unit) \div 10), 40), \* 1.2 down to -0.2
      Cycle(15, (7 * Unit) \div 10, (2 * Unit) \div 10, 40),     \* amplitude 0.5
      Cycle(15, Unit, 0, 33),                                    \* 495 ms
      Cycle(15, Unit, 0, 400) }                                  \* 6000 ms

HasThresholds(ret) == "thresholds" \in DOMAIN ret

CalStart ==
    /\ feed = <<>>
    /\ ~autoCalibrator.isCalibrating
    /\ autoCalibrator' = acStartCalibration(autoCalibrator, now)
    /\ emitted' = 0
    /\ call' = [op |-> "startCalibration"]
    /\ UNCHANGED <<axisFilter, repDetector, cadenceEstimator, now, used, fed, feed>>
    /\ UNCHANGED appVarsButFeed

CalStop ==
    /\ feed = <<>>
    /\ autoCalibrator.isCalibrating
    /\ autoCalibrator' = acStopCalibration(autoCalibrator)
    /\ call' = [op |-> "stopCalibration"]
    /\ UNCHANGED <<axisFilter, repDetector, cadenceEstimator, now, used, fed, emitted, feed>>
    /\ UNCHANGED appVarsButFeed

CalPerform(cycle) ==
    /\ feed = <<>>
    /\ call.op # "load"
    /\ used.cycles < MaxCycles
    /\ feed' = cycle
    /\ used' = [used EXCEPT !.cycles = @ + 1]
    /\ UNCHANGED <<axisFilter, repDetector, autoCalibrator, cadenceEstimator, now,
                   call, fed, emitted>>
    /\ UNCHANGED appVarsButFeed

CalProcess ==
    /\ feed # <<>>
    /\ now' = now + Head(feed).dt
    /\ feed' = Tail(feed)
    /\ LET r == processValue(autoCalibrator, Head(feed).v, now')
       IN  /\ autoCalibrator' = r.ac
           /\ call' = [op |-> "processValue", z |-> Head(feed).v, t |-> now', ret |-> r.ret]
           /\ emitted' = IF HasThresholds(r.ret) THEN emitted + 1 ELSE emitted
    /\ used' = [used EXCEPT !.calls = @ + 1]
    /\ UNCHANGED <<axisFilter, repDetector, cadenceEstimator, fed>>
    /\ UNCHANGED appVarsButFeed

NextCal ==
    \/ CalStart
    \/ CalStop
    \/ \E cycle \in CalCycles : CalPerform(cycle)
    \/ CalProcess

SpecCal == InitPlain /\ [][NextCal]_vars

-----------------------------------------------------------------------------
(* SpecCalEdge: the AutoCalibrator driven by cycles at the edges of its     *)
(* tests: levels of exactly 0.6 and 0.3, a closing sample that is the 15th, *)
(* durations of exactly 500 and 5000 ms, an amplitude of exactly 0.8, and   *)
(* pauses of 499, 500 and 501 ms after the previous cycle.                  *)

MaxEdgeCycles == 3

\* a pause, k samples at level hi spaced dt, then one at level lo
EdgeCycle(pause, k, hi, lo, dt) ==
    <<Sample(0, pause)>> \o Repeat(k, Sample(hi, dt)) \o <<Sample(lo, dt)>>

CalEdgeCycles ==
    { EdgeCycle(600, 20, Unit, 0, 25),                   \* lasts 500 ms
      EdgeCycle(500, 20, Unit, 0, 250),                  \* lasts 5000 ms
      EdgeCycle(600, 20, Unit, 0, 251),                  \* lasts 5020 ms
      EdgeCycle(499, 15, 8 * RawStep, 0, 40),            \* amplitude 0.8
      EdgeCycle(600, 15, 7 * RawStep, 0, 33),            \* amplitude 0.7, 495 ms
      EdgeCycle(501, 14, Unit, 0, 40),                   \* closes on the 15th sample
      EdgeCycle(600, 15, 6 * RawStep, 0, 40),            \* level 0.6
      EdgeCycle(600, 15, Unit, 3 * RawStep, 40),         \* closes at 0.3
      EdgeCycle(600, 15, -Unit, -(2 * RawStep), 40) }    \* downwards

CalEdgePerform(cycle) ==
    /\ feed = <<>>
    /\ call.op # "load"
    /\ used.cycles < MaxEdgeCycles
    /\ feed' = cycle
    /\ used' = [used EXCEPT !.cycles = @ + 1]
    /\ UNCHANGED <<axisFilter, repDetector, autoCalibrator, cadenceEstimator, now,
                   call, fed, emitted>>
    /\ UNCHANGED appVarsButFeed

NextCalEdge ==
    \/ CalStart
    \/ CalStop
    \/ \E cycle \in CalEdgeCycles : CalEdgePerform(cycle)
    \/ CalProcess

SpecCalEdge == InitPlain /\ [][NextCalEdge]_vars

-----------------------------------------------------------------------------
(* The page (src/app.js:900-1274): one thread and one event loop.  A click, *)
(* a timer callback and the dispatch of one motion event are tasks; the     *)
(* continuations of awaited promises (microtasks) run to exhaustion after   *)
(* each callback, so before the next listener of the same event and before  *)
(* the next task.                                                           *)

SAMPLES_NEEDED == 5
AxisTimeoutMs == 2000
StartDelayMs == 1500
PageLoadTime == 10 * 1000
TickMs == 5 * 100

\* the environment's budget of clicks, clock ticks and motion events
MaxClicks == 3
MaxTicks == 3
MaxEvents == 1

\* what call holds after a step that calls no method of the four objects
Quiet == [op |-> "none", task |-> 0, invoked |-> {}]

objects == <<axisFilter, repDetector, autoCalibrator, cadenceEstimator>>
saved == <<calibratedThresholds, storedThresholds>>
page == <<permissionApi, fftLoaded>>

\* the callbacks registered for 'devicemotion'; task is 0 for the two global
\* handlers and the number of the async call for detectVerticalAxis' handler
Listener(fn, task) == [fn |-> fn, task |-> task]
MotionListener == Listener("handleMotion", 0)
CalibrationListener == Listener("handleMotionCalibration", 0)
Subscribed(l) == \E i \in 1..Len(listeners) : listeners[i] = l

\* window.addEventListener: a callback already registered is not added again
addEventListener(ls, l) ==
    IF \E i \in 1..Len(ls) : ls[i] = l THEN ls ELSE Append(ls, l)

\* window.removeEventListener
removeEventListener(ls, l) == SelectSeq(ls, LAMBDA e : e # l)

\* no callback is running and none is owed: the next task can start
Idle == dispatch.todo = <<>> /\ micro = <<>>

\* the timer the browser fires next: the earliest due, the oldest among equals
DueIndex ==
    CHOOSE i \in 1..Len(timers) :
        \A j \in 1..Len(timers) :
            \/ timers[i].due < timers[j].due
            \/ timers[i].due = timers[j].due /\ i <= j
TimerDue == timers # <<>> /\ timers[DueIndex].due <= now
RemoveAt(s, i) == SubSeq(s, 1, i - 1) \o SubSeq(s, i + 1, Len(s))

\* one call of the async functions toggleMonitoring / startCalibration:
\* where it is suspended, and the closure of its detectVerticalAxis
newTask(kind, pc) ==
    [kind |-> kind, pc |-> pc, samplesCollected |-> 0,
     samples |-> [x |-> <<>>, y |-> <<>>, z |-> <<>>], settled |-> FALSE]

\* await requestPermission(): without the permission API the promise is
\* already fulfilled with true and the caller resumes in a microtask; with it
\* the caller waits for the user's answer
requestPermission(kind) ==
    /\ tasks' = Append(tasks, newTask(kind, IF permissionApi THEN "perm" ELSE "permDone"))
    /\ micro' = IF permissionApi THEN micro
                ELSE Append(micro, [task |-> Len(tasks) + 1, value |-> "granted"])

\* the user answers the permission prompt of call i, one more tap (a rejection
\* of the promise is caught and counts as a refusal)
PermissionAnswer(i, answer) ==
    /\ Idle
    /\ tasks[i].pc = "perm"
    /\ used.clicks < MaxClicks
    /\ used' = [used EXCEPT !.clicks = @ + 1]
    /\ tasks' = [tasks EXCEPT ![i].pc = "permDone"]
    /\ micro' = Append(micro, [task |-> i, value |-> answer])
    /\ call' = Quiet
    /\ UNCHANGED <<objects, saved, page, isRunning, isCalibrating, detectedAxis,
                   lastSampleTime, dataPoints, listeners, timers, dispatch, ui, now,
                   feed, fed, emitted, cancelled, samplesInSession, acceptedAt>>

\* a click on startBtn while isRunning is false: toggleMonitoring up to its
\* first await
ToggleMonitoringStart ==
    /\ Idle
    /\ feed = <<>>
    /\ used.clicks < MaxClicks
    /\ used' = [used EXCEPT !.clicks = @ + 1]
    /\ ~isRunning
    /\ requestPermission("toggle")
    /\ call' = Quiet
    /\ UNCHANGED <<objects, saved, page, isRunning, isCalibrating, detectedAxis,
                   lastSampleTime, dataPoints, listeners, timers, dispatch, ui, now,
                   feed, fed, emitted, cancelled, samplesInSession, acceptedAt>>

\* a click on startBtn while isRunning is true: the else branch
ToggleMonitoringStop ==
    /\ Idle
    /\ feed = <<>>
    /\ used.clicks < MaxClicks
    /\ used' = [used EXCEPT !.clicks = @ + 1]
    /\ isRunning
    /\ isRunning' = FALSE
    /\ ui' = [ui EXCEPT !.startBtn = "Iniciar"]
    /\ listeners' = removeEventListener(listeners, MotionListener)
    /\ cancelled' = (cancelled \/ ~isCalibrating)
    /\ samplesInSession' = 0
    /\ UNCHANGED acceptedAt
    /\ call' = Quiet
    /\ UNCHANGED <<objects, saved, page, isCalibrating, detectedAxis, lastSampleTime,
                   dataPoints, tasks, timers, micro, dispatch, now, feed, fed,
                   emitted>>

\* a click on calibrateBtn: startCalibration up to its first await
StartCalibrationClick ==
    /\ Idle
    /\ feed = <<>>
    /\ used.clicks < MaxClicks
    /\ used' = [used EXCEPT !.clicks = @ + 1]
    /\ requestPermission("calib")
    /\ call' = Quiet
    /\ UNCHANGED <<objects, saved, page, isRunning, isCalibrating, detectedAxis,
                   lastSampleTime, dataPoints, listeners, timers, dispatch, ui, now,
                   feed, fed, emitted, cancelled, samplesInSession, acceptedAt>>

\* a close handler that only hides the panel
CloseCalibrateClick_OnlyHidesPanel ==
    /\ Idle
    /\ feed = <<>>
    /\ used.clicks < MaxClicks
    /\ used' = [used EXCEPT !.clicks = @ + 1]
    /\ ui.panel
    /\ ui' = [ui EXCEPT !.panel = FALSE]
    /\ cancelled' = (cancelled \/ isCalibrating)
    /\ samplesInSession' = 0
    /\ UNCHANGED acceptedAt
    /\ call' = Quiet
    /\ UNCHANGED <<objects, saved, page, isRunning, isCalibrating, listeners,
                   detectedAxis, lastSampleTime, dataPoints, tasks, timers, micro,
                   dispatch, now, feed, fed, emitted>>

\* a click on closeCalibrateBtn, which the visible calibration panel shows
CloseCalibrateClick ==
    /\ Idle
    /\ feed = <<>>
    /\ used.clicks < MaxClicks
    /\ used' = [used EXCEPT !.clicks = @ + 1]
    /\ ui.panel
    /\ isCalibrating' = FALSE
    /\ isRunning' = FALSE
    /\ listeners' = removeEventListener(listeners, CalibrationListener)
    /\ ui' = [panel |-> FALSE, startBtn |-> "Iniciar"]
    /\ cancelled' = (cancelled \/ isCalibrating)
    /\ samplesInSession' = 0
    /\ UNCHANGED acceptedAt
    /\ call' = Quiet
    /\ UNCHANGED <<objects, saved, page, detectedAxis, lastSampleTime, dataPoints,
                   tasks, timers, micro, dispatch, now, feed, fed, emitted>>

\* detectVerticalAxis(status) called by async call i: subscribe the closure's
\* handler and arm the 2000 ms timeout (which nothing ever clears)
detectVerticalAxis(i) ==
    /\ listeners' = addEventListener(listeners, Listener("axis", i))
    /\ timers' = Append(timers, [fn |-> "axisTimeout", task |-> i,
                                 due |-> now + AxisTimeoutMs])
    /\ tasks' = [tasks EXCEPT ![i].pc = "axis"]

\* a resolve that settles the promise again
resolveAxis_Resettles(ts, mq, i, axis) ==
    [tasks |-> [ts EXCEPT ![i].settled = TRUE, ![i].pc = "axisDone"],
     micro |-> Append(mq, [task |-> i, value |-> axis])]

\* resolve(axis) of call i's detectVerticalAxis promise: only the first
\* resolve settles it, and the awaiting function resumes in a microtask
resolveAxis(ts, mq, i, axis) ==
    IF ts[i].settled THEN [tasks |-> ts, micro |-> mq]
    ELSE [tasks |-> [ts EXCEPT ![i].settled = TRUE, ![i].pc = "axisDone"],
          micro |-> Append(mq, [task |-> i, value |-> axis])]

\* startCalibration after `await detectVerticalAxis` (lines 914-936)
startCalibrationTail(i) ==
    /\ ui' = [panel |-> TRUE, startBtn |-> "Detener Calibracion"]
    /\ autoCalibrator' = acStartCalibration(autoCalibrator, now)
    /\ axisFilter' = filterReset(axisFilter)
    /\ cadenceEstimator' = cadenceReset(cadenceEstimator)
    /\ dataPoints' = [labels |-> <<>>, x |-> <<>>, y |-> <<>>, z |-> <<>>]
    /\ isCalibrating' = TRUE
    /\ isRunning' = TRUE
    /\ listeners' = addEventListener(listeners, CalibrationListener)
    /\ tasks' = [tasks EXCEPT ![i].pc = "done"]
    /\ emitted' = 0
    /\ cancelled' = FALSE
    /\ UNCHANGED <<repDetector, timers, samplesInSession, acceptedAt>>

\* toggleMonitoring after the 1500 ms delay (lines 1150-1174)
toggleMonitoringTail(i) ==
    /\ axisFilter' = filterReset(axisFilter)
    /\ repDetector' = IF IsNull(calibratedThresholds) THEN repReset(repDetector)
                      ELSE setThresholds(repReset(repDetector), calibratedThresholds)
    /\ cadenceEstimator' = setSampleRate(cadenceReset(cadenceEstimator),
                                         initialSampleRateHz)
    /\ isRunning' = TRUE
    /\ ui' = [ui EXCEPT !.startBtn = "Detener"]
    /\ listeners' = addEventListener(listeners, MotionListener)
    /\ tasks' = [tasks EXCEPT ![i].pc = "done"]
    /\ cancelled' = FALSE
    /\ samplesInSession' = 0
    /\ UNCHANGED acceptedAt
    /\ UNCHANGED <<autoCalibrator, dataPoints, isCalibrating, timers, emitted>>

\* the oldest microtask: async call i resumes after the await it was
\* suspended at and runs to its next await or to its end
Resume ==
    /\ micro # <<>>
    /\ LET i == Head(micro).task
           value == Head(micro).value
           pc == tasks[i].pc
       IN  /\ micro' = Tail(micro)
           /\ call' = IF pc = "delayDone"
                       THEN [op |-> "toggleMonitoring", task |-> i,
                             invoked |-> IF IsNull(calibratedThresholds) THEN {"reset"}
                                         ELSE {"reset", "setThresholds"}]
                       ELSE Quiet
           /\ CASE pc = "permDone" /\ value = "denied" ->
                     /\ tasks' = [tasks EXCEPT ![i].pc = "done"]
                     /\ UNCHANGED <<objects, isRunning, isCalibrating, detectedAxis,
                                    dataPoints, listeners, timers, ui, emitted,
                                    cancelled, samplesInSession, acceptedAt>>
                [] pc = "permDone" /\ value # "denied" ->
                     /\ detectVerticalAxis(i)
                     /\ UNCHANGED <<objects, isRunning, isCalibrating, detectedAxis,
                                    dataPoints, ui, emitted, cancelled,
                                    samplesInSession, acceptedAt>>
                [] pc = "axisDone" /\ tasks[i].kind = "toggle" ->
                     /\ detectedAxis' = value
                     /\ timers' = Append(timers, [fn |-> "delay", task |-> i,
                                                  due |-> now + StartDelayMs])
                     /\ tasks' = [tasks EXCEPT ![i].pc = "delay"]
                     /\ UNCHANGED <<objects, isRunning, isCalibrating, dataPoints,
                                    listeners, ui, emitted, cancelled,
                                    samplesInSession, acceptedAt>>
                [] pc = "axisDone" /\ tasks[i].kind = "calib" ->
                     /\ detectedAxis' = value
                     /\ startCalibrationTail(i)
                [] pc = "delayDone" ->
                     /\ toggleMonitoringTail(i)
                     /\ UNCHANGED detectedAxis
    /\ UNCHANGED <<saved, page, lastSampleTime, dispatch, now, feed, used, fed>>

\* a timeout that unsubscribes the handler and resolves nothing
AxisTimeout_OnlyUnsubscribes ==
    /\ Idle
    /\ TimerDue
    /\ timers[DueIndex].fn = "axisTimeout"
    /\ listeners' = removeEventListener(listeners,
                                        Listener("axis", timers[DueIndex].task))
    /\ call' = Quiet
    /\ timers' = RemoveAt(timers, DueIndex)
    /\ UNCHANGED <<objects, saved, page, isRunning, isCalibrating, detectedAxis,
                   lastSampleTime, dataPoints, tasks, micro, dispatch, ui, now, feed,
                   used, fed, emitted, cancelled, samplesInSession, acceptedAt>>

\* the 2000 ms timeout of call i's detectVerticalAxis
AxisTimeout ==
    /\ Idle
    /\ TimerDue
    /\ timers[DueIndex].fn = "axisTimeout"
    /\ LET i == timers[DueIndex].task
           r == resolveAxis(tasks, micro, i, "y")
       IN  /\ listeners' = removeEventListener(listeners, Listener("axis", i))
           /\ tasks' = r.tasks
           /\ micro' = r.micro
           /\ call' = Quiet
    /\ timers' = RemoveAt(timers, DueIndex)
    /\ UNCHANGED <<objects, saved, page, isRunning, isCalibrating, detectedAxis,
                   lastSampleTime, dataPoints, dispatch, ui, now, feed, used, fed,
                   emitted, cancelled, samplesInSession, acceptedAt>>

\* the 1500 ms delay of call i's toggleMonitoring has elapsed
DelayElapsed ==
    /\ Idle
    /\ TimerDue
    /\ timers[DueIndex].fn = "delay"
    /\ LET i == timers[DueIndex].task
       IN  /\ tasks' = [tasks EXCEPT ![i].pc = "delayDone"]
           /\ micro' = Append(micro, [task |-> i, value |-> "elapsed"])
           /\ call' = Quiet
    /\ timers' = RemoveAt(timers, DueIndex)
    /\ UNCHANGED <<objects, saved, page, isRunning, isCalibrating, detectedAxis,
                   lastSampleTime, dataPoints, listeners, dispatch, ui, now, feed,
                   used, fed, emitted, cancelled, samplesInSession, acceptedAt>>

\* time passes while the page is idle and no timer is due: up to the next
\* timer, or by TickMs when none is pending and samples are being taken
Tick ==
    /\ Idle
    /\ feed = <<>>
    /\ ~TimerDue
    /\ timers # <<>> \/ isRunning
    /\ used.ticks < MaxTicks
    /\ now' = IF timers # <<>> THEN timers[DueIndex].due ELSE now + TickMs
    /\ used' = [used EXCEPT !.ticks = @ + 1]
    /\ call' = Quiet
    /\ UNCHANGED <<objects, saved, page, isRunning, isCalibrating, detectedAxis,
                   lastSampleTime, dataPoints, listeners, tasks, timers, micro,
                   dispatch, ui, feed, fed, emitted, cancelled, samplesInSession, acceptedAt>>

\* a DeviceMotionEvent: each of its two readings is null or has three
\* components, each of which is null or a number
Num(v) == [v |-> v]
Vec(x, y, z) == [x |-> Num(x), y |-> Num(y), z |-> Num(z)]
NullVec == [x |-> Null, y |-> Null, z |-> Null]
Reading(acc, grav) == [acceleration |-> acc, accelerationIncludingGravity |-> grav]
Gravity == 16 * Unit
PhoneUpright(v) == Reading(Vec(0, v, 0), Vec(0, Gravity + v, 0))
PhoneFlat(v) == Reading(Vec(0, 0, v), Vec(0, 0, Gravity + v))
NoReading == Reading(NullVec, NullVec)

\* `c || 0` for a component
OrZero(c) == IF IsNull(c) THEN 0 ELSE c.v

\* `event.acceleration || event.accelerationIncludingGravity`
accOf(ev) ==
    IF ~IsNull(ev.acceleration) THEN ev.acceleration ELSE ev.accelerationIncludingGravity

\* `!acc || (acc.x === null && acc.y === null && acc.z === null)`
noData(acc) ==
    IsNull(acc) \/ (IsNull(acc.x) /\ IsNull(acc.y) /\ IsNull(acc.z))

\* the switch on detectedAxis
axisValueOf(axis, x, y, z) ==
    CASE axis = "x" -> x [] axis = "y" -> y [] axis = "z" -> z [] OTHER -> y

\* updateChart(x, y, z)
updateChart(dp, x, y, z) ==
    LET pushed == [labels |-> Append(dp.labels, Len(dp.labels)),
                   x |-> Append(dp.x, x), y |-> Append(dp.y, y), z |-> Append(dp.z, z)]
    IN  IF Len(pushed.labels) > MAX_DATA_POINTS
        THEN [labels |-> Tail(pushed.labels), x |-> Tail(pushed.x),
              y |-> Tail(pushed.y), z |-> Tail(pushed.z)]
        ELSE pushed

\* the browser dispatches a motion event: the listeners registered now are
\* the ones that will be called, in registration order
Dispatch(ev) == [ev |-> ev, todo |-> listeners, handled |-> {}]

\* the listener about to be called, and the dispatch after it has run
\* (handled records which of the page's two handlers processed the event)
Current == Head(dispatch.todo)
Delivered(processed) ==
    [dispatch EXCEPT !.todo = Tail(@),
                     !.handled = IF processed THEN @ \cup {Current.fn} ELSE @]

\* completeCalibration(result)
completeCalibration(result) ==
    /\ isCalibrating' = FALSE
    /\ isRunning' = FALSE
    /\ listeners' = removeEventListener(listeners, CalibrationListener)
    /\ calibratedThresholds' = result.thresholds
    /\ storedThresholds' = result.thresholds
    /\ ui' = [ui EXCEPT !.startBtn = "Iniciar"]

\* `!isRunning || isCalibrating` (line 1005) and `!isCalibrating` (line 940)
monitoringOff_IgnoresCalibration == ~isRunning
monitoringOff == ~isRunning \/ isCalibrating
calibrationOff == ~isCalibrating

\* a handler that gives the detector the axis value instead of the filter's
\* output
componentCalls_RawToDetector(f, axisValue, timestamp) ==
    LET smoothed == addValue(f, axisValue).ret
    IN  <<[to |-> "addValue", value |-> axisValue],
          [to |-> "addSample", value |-> smoothed],
          [to |-> "processAcceleration", value |-> axisValue, timestamp |-> timestamp]>>

\* the calls handleMotion makes on the components for one sample, in program
\* order, with their arguments (lines 1028, 1032, 1041); f is axisFilter
\* before the first of them
componentCalls(f, axisValue, timestamp) ==
    LET smoothed == addValue(f, axisValue).ret
    IN  <<[to |-> "addValue", value |-> axisValue],
          [to |-> "addSample", value |-> smoothed],
          [to |-> "processAcceleration", value |-> smoothed, timestamp |-> timestamp]>>

\* handleMotion(event)
handleMotion ==
    /\ dispatch.todo # <<>> /\ micro = <<>>
    /\ Current = MotionListener
    /\ LET ev == dispatch.ev
           acc == accOf(ev)
           x == OrZero(acc.x)
           y == OrZero(acc.y)
           z == OrZero(acc.z)
           calls == componentCalls(axisFilter, axisValueOf(detectedAxis, x, y, z), now)
           filtered == addValue(axisFilter, calls[1].value)
           rd == processAcceleration(repDetector, calls[3].value, calls[3].timestamp)
       IN  IF ~Subscribed(Current) \/ monitoringOff
              \/ now - lastSampleTime < samplingInterval
           THEN /\ call' = [op |-> "handleMotion", task |-> 0, invoked |-> {}]
                /\ dispatch' = Delivered(FALSE)
                /\ UNCHANGED <<objects, lastSampleTime, dataPoints, samplesInSession, acceptedAt>>
           ELSE IF noData(acc)
           THEN /\ lastSampleTime' = now
                /\ call' = [op |-> "handleMotion", task |-> 0, invoked |-> {}]
                /\ dispatch' = Delivered(FALSE)
                /\ UNCHANGED <<objects, dataPoints, samplesInSession, acceptedAt>>
           ELSE /\ lastSampleTime' = now
                /\ dataPoints' = updateChart(dataPoints, x, y, z)
                /\ axisFilter' = filtered.f
                /\ \E bestK \in binChoices(cadenceEstimator, fftLoaded) :
                       cadenceEstimator' =
                           addSample(cadenceEstimator, calls[2].value, fftLoaded, bestK, 1).ce
                /\ repDetector' = rd
                /\ samplesInSession' = samplesInSession + 1
                /\ acceptedAt' = Num(now)
                /\ call' = [op |-> "handleMotion", task |-> 0,
                            invoked |-> {"addValue", "addSample", "processAcceleration"},
                            calls |-> calls,
                            ret |-> repResult(rd)]
                /\ dispatch' = Delivered(TRUE)
                /\ UNCHANGED autoCalibrator
    /\ UNCHANGED <<saved, page, isRunning, isCalibrating, detectedAxis, listeners,
                   tasks, timers, micro, ui, now, feed, used, fed, emitted, cancelled>>

\* handleMotionCalibration(event)
handleMotionCalibration ==
    /\ dispatch.todo # <<>> /\ micro = <<>>
    /\ Current = CalibrationListener
    /\ LET ev == dispatch.ev
           acc == accOf(ev)
           x == OrZero(acc.x)
           y == OrZero(acc.y)
           z == OrZero(acc.z)
           filtered == addValue(axisFilter, axisValueOf(detectedAxis, x, y, z))
           smoothed == filtered.ret
           r == processValue(autoCalibrator, smoothed, now)
           result == r.ret
           completes == /\ ~IsNull(result)
                        /\ "repCount" \in DOMAIN result
                        /\ HasThresholds(result)
       IN  IF ~Subscribed(Current) \/ calibrationOff
              \/ now - lastSampleTime < samplingInterval
           THEN /\ call' = [op |-> "handleMotionCalibration", task |-> 0, invoked |-> {}]
                /\ dispatch' = Delivered(FALSE)
                /\ UNCHANGED <<objects, saved, isRunning, isCalibrating, listeners, ui,
                               lastSampleTime, dataPoints, emitted, acceptedAt>>
           ELSE IF noData(acc)
           THEN /\ lastSampleTime' = now
                /\ call' = [op |-> "handleMotionCalibration", task |-> 0, invoked |-> {}]
                /\ dispatch' = Delivered(FALSE)
                /\ UNCHANGED <<objects, saved, isRunning, isCalibrating, listeners, ui,
                               dataPoints, emitted, acceptedAt>>
           ELSE /\ lastSampleTime' = now
                /\ dataPoints' = updateChart(dataPoints, x, y, z)
                /\ axisFilter' = filtered.f
                /\ autoCalibrator' = r.ac
                /\ emitted' = IF HasThresholds(result) THEN emitted + 1 ELSE emitted
                /\ call' = [op |-> "handleMotionCalibration", task |-> 0,
                            invoked |-> {"addValue", "processValue"},
                            ret |-> result, completed |-> completes]
                /\ dispatch' = Delivered(TRUE)
                /\ IF completes THEN completeCalibration(result)
                   ELSE UNCHANGED <<saved, isRunning, isCalibrating, listeners, ui>>
                /\ acceptedAt' = Num(now)
                /\ UNCHANGED <<repDetector, cadenceEstimator>>
    /\ UNCHANGED <<page, detectedAxis, tasks, timers, micro, now, feed, used, fed,
                   cancelled, samplesInSession>>

\* a choice in which x needs to be strictly the largest
verticalAxisOf_StrictX(avgX, avgY, avgZ) ==
    IF avgX > avgY /\ avgX > avgZ THEN "x"
    ELSE IF avgY >= avgX /\ avgY >= avgZ THEN "y"
    ELSE "z"

\* the if / else if / else that picks verticalAxis (lines 1087-1090)
verticalAxisOf(avgX, avgY, avgZ) ==
    IF avgX >= avgY /\ avgX >= avgZ THEN "x"
    ELSE IF avgY >= avgX /\ avgY >= avgZ THEN "y"
    ELSE "z"

\* the handler of call i's detectVerticalAxis
axisHandler ==
    /\ dispatch.todo # <<>> /\ micro = <<>>
    /\ Current.fn = "axis"
    /\ LET i == Current.task
           acc == dispatch.ev.accelerationIncludingGravity
           t == tasks[i]
           samples == [x |-> Append(t.samples.x, Abs(acc.x.v)),
                       y |-> Append(t.samples.y, Abs(acc.y.v)),
                       z |-> Append(t.samples.z, Abs(acc.z.v))]
           counted == [tasks EXCEPT ![i].samples = samples,
                                    ![i].samplesCollected = @ + 1]
           \* the three averages, times SAMPLES_NEEDED
           avgX == SumSeq(samples.x)
           avgY == SumSeq(samples.y)
           avgZ == SumSeq(samples.z)
           verticalAxis == verticalAxisOf(avgX, avgY, avgZ)
           r == resolveAxis(counted, micro, i, verticalAxis)
       IN  IF \/ ~Subscribed(Current)
              \/ IsNull(acc) \/ IsNull(acc.x) \/ IsNull(acc.y) \/ IsNull(acc.z)
           THEN UNCHANGED <<tasks, micro, listeners>>
           ELSE IF counted[i].samplesCollected >= SAMPLES_NEEDED
           THEN /\ listeners' = removeEventListener(listeners, Current)
                /\ tasks' = r.tasks
                /\ micro' = r.micro
           ELSE /\ tasks' = counted
                /\ UNCHANGED <<micro, listeners>>
    /\ call' = Quiet
    /\ dispatch' = Delivered(FALSE)
    /\ UNCHANGED <<objects, saved, page, isRunning, isCalibrating, detectedAxis,
                   lastSampleTime, dataPoints, timers, ui, now, feed, used, fed,
                   emitted, cancelled, samplesInSession, acceptedAt>>

-----------------------------------------------------------------------------
(* Spec: the page under any interleaving of clicks, the permission          *)
(* prompt's answer, clock ticks, timers and motion events                    *)

\* a threshold set saved by an earlier calibration
SavedThresholds == derivedThresholds(<<[maxZ |-> Unit, minZ |-> -Unit, amplitude |-> 2 * Unit]>>)

\* the page after DOMContentLoaded (lines 1198-1209 load the saved set)
InitPage ==
    /\ InitProgram
    /\ now = PageLoadTime
    /\ fftLoaded = TRUE
    /\ cadenceEstimator = newCadenceEstimator(fftLoaded)
    /\ storedThresholds \in {Null, SavedThresholds}
    /\ calibratedThresholds = storedThresholds

\* the readings the device delivers here: the phone upright, pulled up at 2.0
MotionEvents == {PhoneUpright(2 * Unit)}
Answers == {"granted", "denied"}

\* the device delivers a motion event to the window
MotionEvent(ev) ==
    /\ Idle
    /\ feed = <<>>
    /\ listeners # <<>>
    /\ used.events < MaxEvents
    /\ dispatch' = Dispatch(ev)
    /\ used' = [used EXCEPT !.events = @ + 1]
    /\ call' = Quiet
    /\ UNCHANGED <<objects, saved, page, isRunning, isCalibrating, detectedAxis,
                   lastSampleTime, dataPoints, listeners, tasks, timers, micro, ui,
                   now, feed, fed, emitted, cancelled, samplesInSession, acceptedAt>>

Init == InitPage /\ permissionApi \in BOOLEAN

Next ==
    \/ ToggleMonitoringStart
    \/ ToggleMonitoringStop
    \/ StartCalibrationClick
    \/ CloseCalibrateClick
    \/ \E i \in 1..Len(tasks) : \E answer \in Answers : PermissionAnswer(i, answer)
    \/ Resume
    \/ AxisTimeout
    \/ DelayElapsed
    \/ Tick
    \/ \E ev \in MotionEvents : MotionEvent(ev)
    \/ handleMotion
    \/ handleMotionCalibration
    \/ axisHandler

Spec == Init /\ [][Next]_vars

-----------------------------------------------------------------------------
(* SpecSession: calibration sessions on a device that delivers movement     *)
(* cycles.  A cycle is a pause of 600 ms, 14 raw samples at one level and   *)
(* 4 at zero, 40 ms apart, on the y axis.                                    *)

SessionCycle(hi) ==
    <<Sample(0, 600)>> \o Repeat(14, Sample(hi, 40)) \o Repeat(4, Sample(0, 40))
SessionCycles == {SessionCycle(12 * RawStep), SessionCycle(6 * RawStep)}

InitSession == InitPage /\ permissionApi = FALSE

\* the user asks for a calibration, before moving
SessionBegin ==
    /\ used.cycles = 0
    /\ StartCalibrationClick

\* the user performs one cycle
SessionPerform(cycle) ==
    /\ Idle
    /\ feed = <<>>
    /\ tasks # <<>>
    /\ used.cycles < MaxCycles
    /\ feed' = cycle
    /\ used' = [used EXCEPT !.cycles = @ + 1]
    /\ call' = Quiet
    /\ UNCHANGED <<objects, saved, page, isRunning, isCalibrating, detectedAxis,
                   lastSampleTime, dataPoints, listeners, tasks, timers, micro,
                   dispatch, ui, now, fed, emitted, cancelled, samplesInSession, acceptedAt>>

\* time passes up to the next sample, or up to the next timer if that is
\* due earlier
SessionAdvance ==
    /\ Idle
    /\ feed # <<>>
    /\ Head(feed).dt > 0
    /\ ~TimerDue
    /\ LET wait == IF timers # <<>> /\ timers[DueIndex].due - now < Head(feed).dt
                   THEN timers[DueIndex].due - now
                   ELSE Head(feed).dt
       IN  /\ now' = now + wait
           /\ feed' = [feed EXCEPT ![1].dt = @ - wait]
    /\ call' = Quiet
    /\ UNCHANGED <<objects, saved, page, isRunning, isCalibrating, detectedAxis,
                   lastSampleTime, dataPoints, listeners, tasks, timers, micro,
                   dispatch, ui, used, fed, emitted, cancelled, samplesInSession, acceptedAt>>

\* the device delivers the next sample of the cycle
SessionDeliver ==
    /\ Idle
    /\ feed # <<>>
    /\ Head(feed).dt = 0
    /\ dispatch' = Dispatch(PhoneUpright(Head(feed).v))
    /\ feed' = Tail(feed)
    /\ call' = Quiet
    /\ UNCHANGED <<objects, saved, page, isRunning, isCalibrating, detectedAxis,
                   lastSampleTime, dataPoints, listeners, tasks, timers, micro, ui,
                   now, used, fed, emitted, cancelled, samplesInSession, acceptedAt>>

NextSession ==
    \/ SessionBegin
    \/ \E cycle \in SessionCycles : SessionPerform(cycle)
    \/ SessionAdvance
    \/ SessionDeliver
    \/ Resume
    \/ AxisTimeout
    \/ axisHandler
    \/ handleMotionCalibration

SpecSession == InitSession /\ [][NextSession]_vars

-----------------------------------------------------------------------------
(* SpecCadence: the page's FFTCadenceEstimator driven call by call.  The     *)
(* samples come in bursts of equal values; fft.js may be missing when the   *)
(* estimator is constructed and load later (a constructor of FFT that       *)
(* throws is caught by _ensureFft and leaves the same state as a missing    *)
(* FFT).                                                                     *)

MaxBursts == 5
CadBursts == {<<0>>, <<2 * Unit>>, Repeat(3, Unit), Repeat(fftSize - 4, Unit)}
CadRates == {1, fftSize * 5}

InitCadence ==
    /\ InitProgram
    /\ now = 0
    /\ permissionApi = FALSE
    /\ fftLoaded \in BOOLEAN
    /\ cadenceEstimator = newCadenceEstimator(fftLoaded)
    /\ storedThresholds = Null
    /\ calibratedThresholds = Null

\* the bins the harness lets the transform choose: the lowest of the band,
\* and on the last sample of a burst also the highest
CadBins ==
    LET all == binChoices(cadenceEstimator, fftLoaded)
        lowest == {b \in all : \A c \in all : b <= c}
        highest == {b \in all : \A c \in all : b >= c}
    IN  IF Len(feed) = 1 THEN lowest \cup highest ELSE lowest

\* the last updateEvery - 1 entries of a history of calls, then one more
Recent(history, entry) ==
    LET h == Append(history, entry)
    IN  IF Len(h) > updateEvery THEN Tail(h) ELSE h

\* the caller is about to pass a burst of samples
CadPerform(burst) ==
    /\ feed = <<>>
    /\ used.cycles < MaxBursts
    /\ Len(burst) > 3 => ~cadenceEstimator._filled
    /\ feed' = burst
    /\ used' = [used EXCEPT !.cycles = @ + 1]
    /\ UNCHANGED <<axisFilter, repDetector, autoCalibrator, cadenceEstimator, now,
                   call, fed, emitted, appVarsButFeed>>

\* addSample(value): call.since counts the calls since construction or
\* reset, call.recent holds whether each of the last updateEvery calls
\* returned an estimate
CadAddSample ==
    /\ feed # <<>>
    /\ \E bestK \in CadBins :
         LET r == addSample(cadenceEstimator, Head(feed), fftLoaded, bestK, 1 + bestK)
             since == IF call.op \in {"addSample", "setSampleRate"} THEN call.since ELSE 0
             recent == IF call.op \in {"addSample", "setSampleRate"}
                       THEN call.recent ELSE <<>>
         IN  /\ cadenceEstimator' = r.ce
             /\ call' = [op |-> "addSample", value |-> Head(feed), ret |-> r.ret,
                         since |-> since + 1,
                         recent |-> Recent(recent, ~IsNull(r.ret)),
                         before |-> [lastFrequencyHz |-> cadenceEstimator.lastFrequencyHz,
                                     lastPower |-> cadenceEstimator.lastPower]]
    /\ feed' = Tail(feed)
    /\ UNCHANGED <<axisFilter, repDetector, autoCalibrator, now, used, fed, emitted,
                   appVarsButFeed>>

\* reset()
CadReset ==
    /\ feed = <<>>
    /\ call.op = "addSample"
    /\ cadenceEstimator' = cadenceReset(cadenceEstimator)
    /\ call' = [op |-> "reset"]
    /\ UNCHANGED <<axisFilter, repDetector, autoCalibrator, now, used, fed, emitted,
                   appVars>>

\* setSampleRate(hz)
CadSetSampleRate(hz) ==
    /\ feed = <<>>
    /\ call.op = "addSample"
    /\ cadenceEstimator.sampleRateHz # Max(1, hz)
    /\ cadenceEstimator' = setSampleRate(cadenceEstimator, hz)
    /\ call' = [call EXCEPT !.op = "setSampleRate"]
    /\ UNCHANGED <<axisFilter, repDetector, autoCalibrator, now, used, fed, emitted,
                   appVars>>

\* the script fft.js finishes loading
CadScriptLoads ==
    /\ feed = <<>>
    /\ ~fftLoaded
    /\ fftLoaded' = TRUE
    /\ UNCHANGED <<axisFilter, repDetector, autoCalibrator, cadenceEstimator, now, used,
                   call, fed, emitted, feed, isRunning, isCalibrating,
                   calibratedThresholds, storedThresholds, detectedAxis, lastSampleTime,
                   dataPoints, listeners, tasks, timers, micro, dispatch, ui,
                   permissionApi, cancelled, samplesInSession, acceptedAt>>

NextCadence ==
    \/ \E burst \in CadBursts : CadPerform(burst)
    \/ CadAddSample
    \/ CadReset
    \/ \E hz \in CadRates : CadSetSampleRate(hz)
    \/ CadScriptLoads

SpecCadence == InitCadence /\ [][NextCadence]_vars

-----------------------------------------------------------------------------
(* SpecDerive: calculateThresholds() on calibrators holding up to           *)
(* MaxRecords records, each of a movement that processValue accepts         *)

MaxRecords == 5

\* the record processValue stores for a movement between min and max
RecordOf(max, min) ==
    [maxZ |-> max, minZ |-> min, amplitude |-> max - min, duration |-> 1000,
     variance |-> [num |-> 0, den |-> 1]]

DeriveRecords ==
    { RecordOf(Unit, 0), RecordOf(4 * RawStep, -(4 * RawStep)),
      RecordOf(9 * RawStep, -(12 * RawStep)), RecordOf(2 * Unit, -Unit) }

\* calculateThresholds() on an active calibrator whose repsData is records,
\* the first call after the page has loaded
DeriveCall(records) ==
    /\ call.op = "load"
    /\ LET ac == [acStartCalibration(newAutoCalibrator, now) EXCEPT
                      !.repsData = records, !.repCount = Len(records)]
           r == calculateThresholds(ac)
       IN  /\ autoCalibrator' = r.ac
           /\ call' = [op |-> "calculateThresholds", repsData |-> records, ret |-> r.ret]
    /\ UNCHANGED <<axisFilter, repDetector, cadenceEstimator, now, used, fed, emitted,
                   appVars>>

NextDerive ==
    \E n \in 0..MaxRecords : \E records \in [1..n -> DeriveRecords] : DeriveCall(records)

SpecDerive == InitPlain /\ [][NextDerive]_vars

-----------------------------------------------------------------------------
(* SpecRing: the page's FFTCadenceEstimator fed one long stream in which    *)
(* the n-th sample has the value n, so that any two samples of a window     *)
(* differ; fft.js may load after the first samples, and reset() is called   *)
(* after some of them.  fed holds the last fftSize samples passed to        *)
(* addSample, oldest first, whether or not the estimator kept them.         *)

MaxRingSamples == 264
RingResetAfter == {3, fftSize + 2, fftSize + 40}
RingLoadBefore == 3

LastN(n, s) == IF Len(s) > n THEN SubSeq(s, Len(s) - n + 1, Len(s)) ELSE s

RingAddSample ==
    /\ used.calls < MaxRingSamples
    /\ LET value == used.calls + 1
           r == addSample(cadenceEstimator, value, fftLoaded, kMin(cadenceEstimator), 1)
       IN  /\ cadenceEstimator' = r.ce
           /\ call' = [op |-> "addSample", value |-> value, ret |-> r.ret,
                       timeDomain |-> timeDomainOf(cadenceEstimator, value, fftLoaded)]
           /\ fed' = LastN(fftSize, Append(fed, value))
    /\ used' = [used EXCEPT !.calls = @ + 1]
    /\ UNCHANGED <<axisFilter, repDetector, autoCalibrator, now, emitted, appVars>>

RingReset ==
    /\ used.calls \in RingResetAfter
    /\ call.op = "addSample"
    /\ cadenceEstimator' = cadenceReset(cadenceEstimator)
    /\ call' = [op |-> "reset"]
    /\ UNCHANGED <<axisFilter, repDetector, autoCalibrator, now, used, fed, emitted,
                   appVars>>

RingScriptLoads ==
    /\ used.calls < RingLoadBefore
    /\ ~fftLoaded
    /\ fftLoaded' = TRUE
    /\ UNCHANGED <<axisFilter, repDetector, autoCalibrator, cadenceEstimator, now, used,
                   call, fed, emitted, feed, isRunning, isCalibrating,
                   calibratedThresholds, storedThresholds, detectedAxis, lastSampleTime,
                   dataPoints, listeners, tasks, timers, micro, dispatch, ui,
                   permissionApi, cancelled, samplesInSession, acceptedAt>>

NextRing == RingAddSample \/ RingReset \/ RingScriptLoads

SpecRing == InitCadence /\ [][NextRing]_vars

-----------------------------------------------------------------------------
(* SpecTrace: fresh RepDetectors fed whole traces at a fixed step from      *)
(* t = 0, and calculateRepQuality applied to accumulators of any shape      *)

\* the thresholds and the trace of the end-to-end scenario
ScenarioThresholds ==
    [upwardAcceleration |-> (8 * Unit) \div 10,
     downwardAcceleration |-> -((6 * Unit) \div 10),
     stableThreshold |-> (3 * Unit) \div 10,
     minRepDuration |-> 800,
     maxRepDuration |-> 5000,
     minAmplitude |-> Unit]
ScenarioTrace ==
    <<0, 0, 9 * RawStep, 12 * RawStep, 10 * RawStep, RawStep,
      -(7 * RawStep), -(9 * RawStep), -(2 * RawStep), 0, 0>>
ScenarioStep == 15 * 10

\* a trace with a second lift at the top of the first
LiftedTwice ==
    <<9 * RawStep, 0, 9 * RawStep, 0, -(7 * RawStep), 0,
      -(9 * RawStep), 7 * RawStep, 9 * RawStep, 0, 0>>

\* a long cycle and a short one right after it
BackToBack ==
    <<9 * RawStep, 0, 0, 0, 0, 0, 0, 0, -(9 * RawStep), 0,
      9 * RawStep, 0, -(9 * RawStep), 0>>

TraceThresholds == {Null, ScenarioThresholds}
TraceSteps == {90, 100, ScenarioStep, 250}
Traces ==
    { ScenarioTrace,
      Repeat(11, 0),                                           \* flat
      <<0, 8 * RawStep, 7 * RawStep, 0, -(6 * RawStep), 0,     \* at the thresholds
        8 * RawStep, 7 * RawStep, 0, 0, 0>>,
      LiftedTwice,
      BackToBack,
      <<9 * RawStep, RawStep, -(9 * RawStep), 0, 0, 0, 0, 0,   \* two short cycles
        9 * RawStep, RawStep, -(9 * RawStep)>> }

\* the samples of a trace with the time that passes before each
Timed(trace, step) ==
    [i \in 1..Len(trace) |-> Sample(trace[i], IF i = 1 THEN 0 ELSE step)]

\* accumulators for calculateRepQuality: any duration, extremes and values
QualityDurations == {-1, 0, 999, 1000, 1499, 1500, 2000, 2500, 2501, 3000, 3001, PosInf}
QualityExtremes ==
    { [maxZ |-> NegInf, minZ |-> PosInf], [maxZ |-> 0, minZ |-> 0],
      [maxZ |-> Unit, minZ |-> 0], [maxZ |-> Unit, minZ |-> 1],
      [maxZ |-> 15 * RawStep, minZ |-> 0], [maxZ |-> PosInf, minZ |-> NegInf] }
QualityValues ==
    { <<>>, <<0, 0>>, <<0, 0, 0>>, <<Unit, -Unit, Unit>>,
      <<3 * Unit, -(3 * Unit), 3 * Unit, -(3 * Unit)>>,
      <<2 * Unit, -(2 * Unit)>>,
      <<12 * RawStep, -(12 * RawStep), 12 * RawStep, -(12 * RawStep)>> }

\* new RepDetector(custom), about to be fed a trace
TraceBegin(custom, trace, step) ==
    /\ feed = <<>>
    /\ repDetector' = newRepDetector(custom)
    /\ now' = 0
    /\ feed' = Timed(trace, step)
    /\ call' = [op |-> "new", custom |-> custom, step |-> step, inputs |-> <<>>,
                phases |-> <<"IDLE">>]
    /\ UNCHANGED <<axisFilter, autoCalibrator, cadenceEstimator, used, fed, emitted,
                   appVarsButFeed>>

\* processAcceleration(z, now): call.inputs holds the samples fed so far and
\* call.phases the phases the detector went through
TraceProcess ==
    /\ feed # <<>>
    /\ LET z == Head(feed).v
           t == now + Head(feed).dt
           rd == processAcceleration(repDetector, z, t)
       IN  /\ repDetector' = rd
           /\ now' = t
           /\ call' = [op |-> "processAcceleration", z |-> z, t |-> t,
                       ret |-> repResult(rd),
                       custom |-> call.custom, step |-> call.step,
                       inputs |-> Append(call.inputs, z),
                       phases |-> IF rd.state # repDetector.state
                                  THEN Append(call.phases, rd.state)
                                  ELSE call.phases]
    /\ feed' = Tail(feed)
    /\ UNCHANGED <<axisFilter, autoCalibrator, cadenceEstimator, used, fed, emitted,
                   appVarsButFeed>>

\* calculateRepQuality() on a detector whose accumulator is data, before any
\* trace is fed
TraceQuality(data) ==
    /\ feed = <<>>
    /\ call.op \in {"load", "calculateRepQuality"}
    /\ call' = [op |-> "calculateRepQuality", data |-> data,
                ret |-> calculateRepQuality(data)]
    /\ UNCHANGED <<axisFilter, repDetector, autoCalibrator, cadenceEstimator, now,
                   used, fed, emitted, appVars>>

\* reset() once a trace has been fed
TraceReset ==
    /\ feed = <<>>
    /\ call.op = "processAcceleration"
    /\ repDetector' = repReset(repDetector)
    /\ call' = [op |-> "reset", before |-> repResult(repDetector)]
    /\ UNCHANGED <<axisFilter, autoCalibrator, cadenceEstimator, now, used, fed, emitted,
                   appVars>>

NextTrace ==
    \/ \E custom \in TraceThresholds, trace \in Traces, step \in TraceSteps :
           TraceBegin(custom, trace, step)
    \/ TraceProcess
    \/ TraceReset
    \/ \E duration \in QualityDurations, extremes \in QualityExtremes,
          zValues \in QualityValues :
           TraceQuality([maxZ |-> extremes.maxZ, minZ |-> extremes.minZ,
                         zValues |-> zValues, duration |-> duration])

SpecTrace == InitPlain /\ [][NextTrace]_vars

-----------------------------------------------------------------------------
(* SpecAxis: one start of monitoring or of calibration on a device held in  *)
(* any position, some of whose events carry null components                  *)

MaxAxisEvents == 6

\* the phone on its side (gravity along -x), and events that lack components
PhoneOnSide(v) == Reading(Vec(v, 0, 0), Vec(-(Gravity + v), 0, 0))
XMissing ==
    Reading([x |-> Null, y |-> Num(2 * Unit), z |-> Num(0)],
            [x |-> Null, y |-> Num(Gravity + 2 * Unit), z |-> Num(0)])
AxisEvents == {PhoneUpright(0), PhoneOnSide(0), PhoneFlat(0), NoReading, XMissing}

InitAxis == InitPage /\ permissionApi = FALSE /\ storedThresholds = Null

\* the one click of the run: startBtn or calibrateBtn
AxisBegin ==
    /\ used.clicks = 0
    /\ ToggleMonitoringStart \/ StartCalibrationClick

\* the device delivers a motion event to the window
AxisMotionEvent(ev) ==
    /\ Idle
    /\ listeners # <<>>
    /\ used.events < MaxAxisEvents
    /\ dispatch' = Dispatch(ev)
    /\ used' = [used EXCEPT !.events = @ + 1]
    /\ call' = Quiet
    /\ UNCHANGED <<objects, saved, page, isRunning, isCalibrating, detectedAxis,
                   lastSampleTime, dataPoints, listeners, tasks, timers, micro, ui,
                   now, feed, fed, emitted, cancelled, samplesInSession, acceptedAt>>

NextAxis ==
    \/ AxisBegin
    \/ \E ev \in AxisEvents : AxisMotionEvent(ev)
    \/ Resume
    \/ AxisTimeout
    \/ DelayElapsed
    \/ Tick
    \/ axisHandler
    \/ handleMotion
    \/ handleMotionCalibration

SpecAxis == InitAxis /\ [][NextAxis]_vars

\* the same run on a device whose events are whole or empty
FairAxisEvents == {PhoneUpright(0), NoReading}

NextAxisFair ==
    \/ AxisBegin
    \/ \E ev \in FairAxisEvents : AxisMotionEvent(ev)
    \/ Resume
    \/ AxisTimeout
    \/ DelayElapsed
    \/ Tick
    \/ axisHandler
    \/ handleMotion
    \/ handleMotionCalibration

\* the browser runs what it owes: due timers fire, queued microtasks run, a
\* dispatched event reaches its listeners, and time passes.  Motion events
\* and clicks are not owed.
FairSpecAxis ==
    /\ InitAxis /\ [][NextAxisFair]_vars
    /\ WF_vars(Resume)
    /\ WF_vars(AxisTimeout)
    /\ WF_vars(DelayElapsed)
    /\ WF_vars(Tick)
    /\ WF_vars(axisHandler)
    /\ WF_vars(handleMotion)
    /\ WF_vars(handleMotionCalibration)

-----------------------------------------------------------------------------
(* SpecStream: one session, of monitoring or of calibration, on a still     *)
(* device (axis detection times out); once the session's handler is         *)
(* subscribed the device delivers events of four kinds at short intervals.  *)

MaxPauses == 3
MaxStreamEvents == 3

\* events whose gravity-excluded reading is there with null components, or
\* is not there at all, while the gravity-included reading is whole
GravityOnly == Reading(NullVec, Vec(0, Gravity + 2 * Unit, 0))
AccelerationAbsent == Reading(Null, Vec(0, Gravity + 2 * Unit, 0))
StreamEvents == {PhoneUpright(2 * Unit), NoReading, GravityOnly, AccelerationAbsent}

\* the time between two events: less than samplingInterval, or exactly it
StreamPauses == {samplingInterval - 13, samplingInterval}

InitStream == InitPage /\ permissionApi = FALSE /\ storedThresholds = Null

\* the one click that starts the session
StreamBegin ==
    /\ used.clicks = 0
    /\ ToggleMonitoringStart \/ StartCalibrationClick

\* time passes: up to the next timer while one is pending, then by pauses
StreamWait(dt) ==
    /\ Idle
    /\ ~TimerDue
    /\ tasks # <<>>
    /\ IF timers # <<>>
       THEN /\ now' = timers[DueIndex].due
            /\ UNCHANGED used
       ELSE /\ used.cycles < MaxPauses
            /\ now' = now + dt
            /\ used' = [used EXCEPT !.cycles = @ + 1]
    /\ call' = Quiet
    /\ UNCHANGED <<objects, saved, page, isRunning, isCalibrating, detectedAxis,
                   lastSampleTime, dataPoints, listeners, tasks, timers, micro,
                   dispatch, ui, feed, fed, emitted, cancelled, samplesInSession,
                   acceptedAt>>

\* the device delivers a motion event to the session's handler
StreamEvent(ev) ==
    /\ Idle
    /\ timers = <<>>
    /\ listeners # <<>>
    /\ used.events < MaxStreamEvents
    /\ dispatch' = Dispatch(ev)
    /\ used' = [used EXCEPT !.events = @ + 1]
    /\ call' = Quiet
    /\ UNCHANGED <<objects, saved, page, isRunning, isCalibrating, detectedAxis,
                   lastSampleTime, dataPoints, listeners, tasks, timers, micro, ui,
                   now, feed, fed, emitted, cancelled, samplesInSession, acceptedAt>>

NextStream ==
    \/ StreamBegin
    \/ \E dt \in StreamPauses : StreamWait(dt)
    \/ \E ev \in StreamEvents : StreamEvent(ev)
    \/ Resume
    \/ AxisTimeout
    \/ DelayElapsed
    \/ handleMotion
    \/ handleMotionCalibration

SpecStream == InitStream /\ [][NextStream]_vars

-----------------------------------------------------------------------------
(* Claims about MovingAverageFilter, under SpecFilter *)

\* the inputs the filter should be holding: the last min(n, windowSize) of
\* the n values passed since construction or reset
RecentInputs ==
    LET k == Min(Len(fed), axisFilter.windowSize)
    IN  SubSeq(fed, Len(fed) - k + 1, Len(fed))

\* C10: the window never holds more than windowSize values, it holds the
\* most recent inputs in arrival order, and the value addValue returned is
\* the arithmetic mean of exactly the last min(n, windowSize) inputs.
C10_WindowBoundAndMean ==
    /\ Len(axisFilter.window) <= axisFilter.windowSize
    /\ axisFilter.window = RecentInputs
    /\ call.op = "addValue" =>
           /\ Len(RecentInputs) = Min(Len(fed), axisFilter.windowSize)
           /\ call.ret * Len(RecentInputs) = SumSeq(RecentInputs)

\* a call that evicted: more inputs than the window holds, and the evicted
\* input differs from the newest one
C10_Witness ==
    /\ call.op = "addValue"
    /\ axisFilter.windowSize = 5
    /\ Len(fed) = 7
    /\ fed[1] # fed[7]
    /\ fed[2] # fed[3]

-----------------------------------------------------------------------------
(* Claims about RepDetector, under SpecRep *)

\* the step is one processAcceleration(z, t) call; call' holds z and t
IsRepCall == call'.op = "processAcceleration" /\ used'.calls = used.calls + 1

\* the accumulator as the call sees it once it has added its own sample and
\* stored the duration
RepDataAtCall ==
    [maxZ |-> Max(repDetector.currentRepData.maxZ, call'.z),
     minZ |-> Min(repDetector.currentRepData.minZ, call'.z),
     zValues |-> Append(repDetector.currentRepData.zValues, call'.z),
     duration |-> call'.t - repDetector.currentRepStartTime]

\* the three gates, read off the state before the call and the call's (z, t)
DurationGate ==
    /\ RepDataAtCall.duration >= repDetector.thresholds.minRepDuration
    /\ RepDataAtCall.duration <= repDetector.thresholds.maxRepDuration
AmplitudeGate ==
    RepDataAtCall.maxZ - RepDataAtCall.minZ >= repDetector.thresholds.minAmplitude
CooldownGate ==
    call'.t - repDetector.lastRepTime >= repDetector.cooldownPeriod

LoweringToIdle == repDetector.state = "LOWERING" /\ repDetector'.state = "IDLE"

\* C1: over processAcceleration calls repCount never decreases, and it
\* grows, by exactly one, only in a call that goes from LOWERING to IDLE
\* with the duration, amplitude and cooldown gates all holding.
C1_CountOnlyOnValidCompletion ==
    [][IsRepCall =>
          /\ repDetector'.repCount >= repDetector.repCount
          /\ repDetector'.repCount # repDetector.repCount =>
                 /\ repDetector'.repCount = repDetector.repCount + 1
                 /\ LoweringToIdle
                 /\ DurationGate /\ AmplitudeGate /\ CooldownGate]_vars

\* a repetition was counted by the last call
C1_Witness ==
    /\ call.op = "processAcceleration"
    /\ repDetector.repCount = 1
    /\ repDetector.lastRepTime = call.t
    /\ repDetector.state = "IDLE"

\* C2: a LOWERING to IDLE call whose three gates hold increments repCount,
\* sets lastRepTime to t, stores the quality score of the repetition's
\* accumulated data, and leaves the accumulator cleared.
C2_ValidCompletionIsCounted ==
    [][(IsRepCall /\ LoweringToIdle /\ DurationGate /\ AmplitudeGate /\ CooldownGate) =>
          /\ repDetector'.repCount = repDetector.repCount + 1
          /\ repDetector'.lastRepTime = call'.t
          /\ repDetector'.lastQuality = calculateRepQuality(RepDataAtCall)
          /\ repDetector'.currentRepData = ClearedRepData]_vars

\* a counted repetition whose score carries a penalty
C2_Witness ==
    /\ call.op = "processAcceleration"
    /\ repDetector.repCount >= 1
    /\ repDetector.lastRepTime = call.t
    /\ repDetector.lastQuality \in 1..99
    /\ repDetector.currentRepData = ClearedRepData

\* C3 (as claimed): after a processAcceleration call that leaves the
\* detector in IDLE the accumulator is in its cleared form, whether the
\* repetition was counted or discarded.
C3_AccumulatorClearedInIdle ==
    (call.op = "processAcceleration" /\ repDetector.state = "IDLE")
        => repDetector.currentRepData = ClearedRepData

-----------------------------------------------------------------------------
(* Claims about AutoCalibrator, under SpecCal *)

\* the step is one processValue(z, t) call; call' holds z, t and the result
IsCalCall == call'.op = "processValue" /\ used'.calls = used.calls + 1

\* C5: over a calibration (since startCalibration) processValue returns a
\* threshold set at most once; it has returned one exactly when the target
\* count of valid cycles is reached; the call that returns it leaves
\* isCalibrating false, and its upwardAcceleration is at least 0.4.
C5_ThresholdsExactlyOnce ==
    /\ emitted <= 1
    /\ emitted = 1 <=> autoCalibrator.repCount >= autoCalibrator.targetReps
    /\ (call.op = "processValue" /\ HasThresholds(call.ret)) =>
           /\ ~autoCalibrator.isCalibrating
           /\ autoCalibrator.repCount = autoCalibrator.targetReps
           /\ Len(autoCalibrator.repsData) = autoCalibrator.targetReps
           /\ 10 * call.ret.thresholds.upwardAcceleration >= 4 * Unit
    /\ (call.op = "processValue" /\ emitted = 1 /\ ~HasThresholds(call.ret)) =>
           IsNull(call.ret)

\* the call that completed the fifth valid cycle returned the threshold set
C5_Witness ==
    /\ call.op = "processValue"
    /\ HasThresholds(call.ret)
    /\ emitted = 1
    /\ used.cycles = 5

\* C6 (as claimed): a call that evaluates a candidate in MOVING (|z| < 0.3
\* with more than 15 samples accumulated) leaves the calibrator in COOLDOWN
\* with lastTransitionTime = t, whether or not the candidate was valid and
\* also when it reaches the target count.
C6_CandidateEndsInCooldown ==
    [][(/\ IsCalCall
        /\ autoCalibrator.isCalibrating
        /\ autoCalibrator.state = "MOVING"
        /\ 10 * Abs(call'.z) < 3 * Unit
        /\ Len(autoCalibrator.currentRepData.zValues) + 1 > 15) =>
          /\ autoCalibrator'.state = "COOLDOWN"
          /\ autoCalibrator'.lastTransitionTime = call'.t]_vars

\* C39: in every state of an AutoCalibrator, repsData has repCount records
\* and repCount <= targetReps; every record has amplitude >= 0.8 and
\* 500 <= duration <= 5000; and isCalibrating is false whenever repCount
\* equals targetReps.
C39_RecordsMatchCount ==
    LET ac == autoCalibrator
    IN  /\ Len(ac.repsData) = ac.repCount
        /\ ac.repCount <= ac.targetReps
        /\ \A i \in 1..Len(ac.repsData) :
               /\ 10 * ac.repsData[i].amplitude >= 8 * Unit
               /\ 500 <= ac.repsData[i].duration
               /\ ac.repsData[i].duration <= 5000
               /\ ac.repsData[i].amplitude = ac.repsData[i].maxZ - ac.repsData[i].minZ
        /\ ac.repCount = ac.targetReps => ~ac.isCalibrating

\* the target count has been reached in a calibration that also saw a
\* movement it did not record, and more samples came after it
C39_Witness ==
    /\ call.op = "processValue"
    /\ IsNull(call.ret)
    /\ autoCalibrator.repCount = autoCalibrator.targetReps
    /\ Len(autoCalibrator.repsData) = CALIBRATION_TARGET_REPS
    /\ autoCalibrator.repsData[1] # autoCalibrator.repsData[2]
    /\ used.cycles = MaxCycles
    /\ ~autoCalibrator.isCalibrating

-----------------------------------------------------------------------------
(* Claims about the calibration session, under SpecSession *)

\* C4: when the calibrator reaches its target count, the motion handler that
\* fed the sample invokes completeCalibration: right after that handler the
\* session's calibratedThresholds is the derived set, isCalibrating and
\* isRunning are false and handleMotionCalibration is unsubscribed
C4_CompletionReachesSession ==
    (/\ call.op = "handleMotionCalibration"
     /\ "ret" \in DOMAIN call
     /\ HasThresholds(call.ret)
     /\ autoCalibrator.repCount >= autoCalibrator.targetReps) =>
        /\ call.completed
        /\ calibratedThresholds = call.ret.thresholds
        /\ ~isCalibrating
        /\ ~isRunning
        /\ ~Subscribed(CalibrationListener)

-----------------------------------------------------------------------------
(* Claims about the page's modes, under Spec *)

PageHandlers == {"handleMotion", "handleMotionCalibration"}
NotSubscribedAfter(l) == \A k \in 1..Len(listeners') : listeners'[k] # l

\* C7: calibration and monitoring are mutually exclusive.  No motion event
\* is processed by both handlers; processAcceleration and addSample are
\* never invoked while isCalibrating is true and processValue never while it
\* is false; a handler called in the wrong mode changes no component state
C7_ModesExclusive ==
    [][/\ Cardinality(dispatch'.handled) <= 1
       /\ ({"processAcceleration", "addSample"} \cap call'.invoked # {}) => ~isCalibrating
       /\ ("processValue" \in call'.invoked) => isCalibrating
       /\ (call'.op = "handleMotion" /\ (isCalibrating \/ ~isRunning)) =>
              UNCHANGED <<objects, lastSampleTime, dataPoints>>
       /\ (call'.op = "handleMotionCalibration" /\ ~isCalibrating) =>
              UNCHANGED <<objects, lastSampleTime, dataPoints>>]_vars

\* one event was offered to handleMotion and then to handleMotionCalibration
\* during a calibration started while monitoring; only the latter took it
C7_Witness ==
    /\ call.op = "handleMotionCalibration"
    /\ "processValue" \in call.invoked
    /\ dispatch.handled = {"handleMotionCalibration"}
    /\ isRunning /\ isCalibrating
    /\ listeners = <<MotionListener, CalibrationListener>>

\* C8: cancelling is one step that clears the active-mode flag and detaches
\* the subscription (the close action during calibration, the stop branch
\* during monitoring), and no motion event delivered after it reaches the
\* filter, RepDetector, the estimator or AutoCalibrator until a session starts
C8_CancelIsAtomic ==
    [][/\ (cancelled' /\ ~cancelled) =>
              /\ ~isRunning'
              /\ isCalibrating => (~isCalibrating' /\ NotSubscribedAfter(CalibrationListener))
              /\ ~isCalibrating => NotSubscribedAfter(MotionListener)
       /\ (cancelled /\ call'.op \in PageHandlers) =>
              /\ call'.invoked = {}
              /\ UNCHANGED objects]_vars

\* a calibration begun while monitoring was closed, and the next motion
\* event was offered to handleMotion, still subscribed, which dropped it
C8_Witness ==
    /\ cancelled
    /\ call.op = "handleMotion"
    /\ call.invoked = {}
    /\ ~IsNull(dispatch.ev)
    /\ ~ui.panel
    /\ \E i \in 1..Len(tasks) : tasks[i].kind = "calib" /\ tasks[i].pc = "done"

\* C9: repDetector.setThresholds and repDetector.reset are never executed
\* while monitoring is active (isRunning, not isCalibrating, handleMotion
\* subscribed) and a sample was already processed in that session
C9_NoResetMidStream ==
    [][(call'.op = "toggleMonitoring"
        /\ {"reset", "setThresholds"} \cap call'.invoked # {}) =>
          ~(/\ isRunning
            /\ ~isCalibrating
            /\ Subscribed(MotionListener)
            /\ samplesInSession > 0)]_vars

-----------------------------------------------------------------------------
(* Claims about FFTCadenceEstimator, under SpecCadence *)

\* C11: addSample returns null on every call made before fftSize samples
\* were passed since construction or reset; among any updateEvery consecutive
\* calls at most one returns an estimate, and a call returns one only when
\* the samples-seen counter is a multiple of updateEvery
C11_NullUntilFilledThenThrottled ==
    call.op = "addSample" =>
        /\ call.since < fftSize => IsNull(call.ret)
        /\ Cardinality({i \in 1..Len(call.recent) : call.recent[i]}) <= 1
        /\ ~IsNull(call.ret) =>
               /\ cadenceEstimator._filled
               /\ cadenceEstimator._samplesSeen % updateEvery = 0

\* the second estimate after the ring filled, updateEvery calls after the first
C11_Witness ==
    /\ call.op = "addSample"
    /\ ~IsNull(call.ret)
    /\ call.since = fftSize + updateEvery
    /\ Len(call.recent) = updateEvery

\* C12: while the global FFT is not available every addSample call returns
\* null, however many calls are made and whatever the values
C12_NullWhileFftUnavailable ==
    (call.op = "addSample" /\ ~fftLoaded) => IsNull(call.ret)

\* more than fftSize calls were made without FFT
C12_Witness ==
    /\ call.op = "addSample"
    /\ ~fftLoaded
    /\ call.since > fftSize
    /\ call.value # 0

\* C13: when an estimate is due and the band is degenerate (kMax <= kMin),
\* addSample returns null and leaves lastFrequencyHz and lastPower as they were
C13_DegenerateBandReturnsNull ==
    (/\ call.op = "addSample"
     /\ estimateDue(cadenceEstimator)
     /\ kMax(cadenceEstimator) <= kMin(cadenceEstimator)) =>
        /\ IsNull(call.ret)
        /\ cadenceEstimator.lastFrequencyHz = call.before.lastFrequencyHz
        /\ cadenceEstimator.lastPower = call.before.lastPower

\* an estimate had been returned, then the sample rate was raised until the
\* band was empty, and an estimate came due again
C13_Witness ==
    /\ call.op = "addSample"
    /\ estimateDue(cadenceEstimator)
    /\ kMax(cadenceEstimator) <= kMin(cadenceEstimator)
    /\ call.before.lastFrequencyHz # 0
    /\ cadenceEstimator.lastFrequencyHz # 0

-----------------------------------------------------------------------------
(* Claims about RepDetector on whole traces, under SpecTrace *)

\* C14: a fresh RepDetector with thresholds up 0.8, down -0.6, stable 0.3,
\* minRepDuration 800, maxRepDuration 5000, minAmplitude 1.0, fed
\* [0,0,0.9,1.2,1.0,0.1,-0.7,-0.9,-0.2,0,0] at 150 ms steps from t = 0, goes
\* through IDLE, PULLING_UP, AT_TOP, LOWERING, IDLE and no other phase
\* change, and has repCount 1 after the trace.
C14_ScenarioYieldsOneRep ==
    (/\ call.op = "processAcceleration"
     /\ call.custom = ScenarioThresholds
     /\ call.step = ScenarioStep
     /\ call.inputs = ScenarioTrace)
    => /\ call.phases = <<"IDLE", "PULLING_UP", "AT_TOP", "LOWERING", "IDLE">>
       /\ repDetector.repCount = 1
       /\ feed = <<>>

C14_Witness ==
    /\ call.op = "processAcceleration"
    /\ call.custom = ScenarioThresholds
    /\ call.step = ScenarioStep
    /\ call.inputs = ScenarioTrace
    /\ now = 10 * ScenarioStep
    /\ repDetector.state = "IDLE"
    /\ repDetector.lastRepTime = 8 * ScenarioStep

\* C30: a processAcceleration call that takes the phase from AT_TOP to
\* PULLING_UP leaves repCount, lastRepTime, lastQuality and
\* currentRepStartTime as they were and only adds the call's value to the
\* accumulator; and the repetition that ends the six samples
\* [0.9,0,0.9,0,-0.7,0] fed to a fresh default detector at 150 ms steps is
\* counted with the duration (750 ms) and the extremes and values of all six
\* samples, from the first lift on.
C30_DoublePumpRestartsNothing ==
    [][(call'.op = "processAcceleration" /\ feed' = Tail(feed))
       => /\ (repDetector.state = "AT_TOP" /\ repDetector'.state = "PULLING_UP")
              => /\ repDetector'.repCount = repDetector.repCount
                 /\ repDetector'.lastRepTime = repDetector.lastRepTime
                 /\ repDetector'.lastQuality = repDetector.lastQuality
                 /\ SameValue(repDetector'.currentRepStartTime,
                              repDetector.currentRepStartTime)
                 /\ repDetector'.currentRepData =
                        accumulate(repDetector, call'.z).currentRepData
                 /\ repDetector'.currentRepData.zValues =
                        Append(repDetector.currentRepData.zValues, call'.z)
          /\ (/\ IsNull(call'.custom)
              /\ call'.step = ScenarioStep
              /\ call'.inputs = SubSeq(LiftedTwice, 1, 6))
              => /\ call'.phases = <<"IDLE", "PULLING_UP", "AT_TOP", "PULLING_UP",
                                     "AT_TOP", "LOWERING", "IDLE">>
                 /\ repDetector'.repCount = 1
                 /\ repDetector'.lastRepTime = 5 * ScenarioStep
                 /\ repDetector'.lastQuality =
                        calculateRepQuality(
                            [maxZ |-> 9 * RawStep, minZ |-> -(7 * RawStep),
                             zValues |-> SubSeq(LiftedTwice, 1, 6),
                             duration |-> 5 * ScenarioStep])]_vars

\* the repetition with the second lift has been counted, 750 ms after the
\* first lift
C30_Witness ==
    /\ call.op = "processAcceleration"
    /\ IsNull(call.custom)
    /\ call.step = ScenarioStep
    /\ call.inputs = SubSeq(LiftedTwice, 1, 6)
    /\ call.phases[4] = "PULLING_UP"
    /\ repDetector.state = "IDLE"
    /\ repDetector.repCount = 1
    /\ repDetector.lastRepTime = 5 * ScenarioStep

\* C15: a RepDetector in IDLE fed a sample that does not exceed
\* upwardAcceleration stays in IDLE and keeps repCount, lastQuality and
\* lastRepTime, on every such call.
C15_IdleBelowThresholdStaysIdle ==
    [][(/\ call'.op = "processAcceleration"
        /\ repDetector.state = "IDLE"
        /\ call'.z <= repDetector.thresholds.upwardAcceleration)
       => /\ repDetector'.state = "IDLE"
          /\ repDetector'.repCount = repDetector.repCount
          /\ repDetector'.lastQuality = repDetector.lastQuality
          /\ repDetector'.lastRepTime = repDetector.lastRepTime]_vars

\* a sample exactly at the threshold has been fed to a detector that was in
\* IDLE since its construction
C15_Witness ==
    /\ call.op = "processAcceleration"
    /\ call.phases = <<"IDLE">>
    /\ call.z = repDetector.thresholds.upwardAcceleration
    /\ Len(call.inputs) > 1
    /\ repDetector.state = "IDLE"

\* C16: lastQuality is always within [0, 100], and so is every score of
\* calculateRepQuality, whatever the duration, the amplitude and the variance
\* of the accumulated repetition.
C16_QualityWithinBounds ==
    /\ repDetector.lastQuality \in 0..100
    /\ call.op = "calculateRepQuality" => call.ret \in 0..100
    /\ call.op = "processAcceleration" => call.ret.quality \in 0..100

\* the lowest score: every deduction applies
C16_Witness ==
    /\ call.op = "calculateRepQuality"
    /\ call.data.duration = PosInf
    /\ call.data.maxZ - call.data.minZ < Unit
    /\ VarianceGT(calculateVariance(call.data.zValues), 15)
    /\ call.ret = 50

\* the step is one processAcceleration(z, t) call on a trace
IsTraceCall == call'.op = "processAcceleration" /\ feed' = Tail(feed)

\* C36: with timestamps that are non-negative and never decrease, and
\* minRepDuration >= cooldownPeriod, every LOWERING -> IDLE call whose
\* duration is within [minRepDuration, maxRepDuration] also has
\* t - lastRepTime >= cooldownPeriod: the cooldown gate rejects nothing the
\* duration gate lets through.
C36_CooldownNeverRejectsAlone ==
    [][(/\ IsTraceCall
        /\ LoweringToIdle
        /\ repDetector.thresholds.minRepDuration >= repDetector.cooldownPeriod
        /\ DurationGate)
       => CooldownGate]_vars

\* a second repetition has been counted, its cycle begun right after the
\* first was counted
C36_Witness ==
    /\ call.op = "processAcceleration"
    /\ call.inputs = BackToBack
    /\ repDetector.state = "IDLE"
    /\ repDetector.repCount = 2
    /\ repDetector.lastRepTime = now
    /\ now - repDetector.currentRepStartTime = 3 * 250

\* C37: a counted repetition scores at least 50, so lastQuality is 0 or
\* within [50, 100] in every state, and it is 0 exactly when no repetition
\* has been counted since the construction or the last reset; every score
\* calculateRepQuality returns is within [50, 100].
C37_QualityZeroOrAtLeastFifty ==
    /\ repDetector.lastQuality = 0 \/ repDetector.lastQuality \in 50..100
    /\ repDetector.lastQuality = 0 <=> repDetector.repCount = 0
    /\ call.op = "calculateRepQuality" => call.ret \in 50..100

\* a detector that had counted repetitions has been reset
C37_Witness ==
    /\ call.op = "reset"
    /\ call.before.repCount = 2
    /\ call.before.quality >= 50
    /\ repDetector.lastQuality = 0
    /\ repDetector.repCount = 0

\* the sum over a sequence of the squares of n * v - S
RECURSIVE SumSqDev(_, _, _)
SumSqDev(values, n, S) ==
    IF values = <<>> THEN 0
    ELSE (n * Head(values) - S) * (n * Head(values) - S) + SumSqDev(Tail(values), n, S)

\* the population variance of values exceeds tenths/10: with mean S/n it is
\* sum (v - S/n)^2 / n = sum (n v - S)^2 / n^3
PopulationVarianceExceeds(values, tenths) ==
    LET n == Len(values)
    IN  SumSqDev(values, n, SumSeq(values)) > tenths * ((Unit * Unit) \div 10) * n * n * n

\* 100 minus the three penalties, clamped to [0, 100]
ScoreByPenalties(data) ==
    LET off == Abs(data.duration - 2000)
        amplitude == data.maxZ - data.minZ
        durationPenalty == IF off > 1000 THEN 15 ELSE IF off > 500 THEN 8 ELSE 0
        amplitudePenalty == IF amplitude < Unit THEN 20
                            ELSE IF 2 * amplitude < 3 * Unit THEN 10 ELSE 0
        variancePenalty == IF Len(data.zValues) <= 2 THEN 0
                           ELSE IF PopulationVarianceExceeds(data.zValues, 15) THEN 15
                           ELSE IF PopulationVarianceExceeds(data.zValues, 8) THEN 8
                           ELSE 0
    IN  Max(0, Min(100, 100 - (durationPenalty + amplitudePenalty + variancePenalty)))

\* C31: calculateRepQuality returns 100 minus the sum of a duration penalty
\* (15 if |duration - 2000| > 1000, else 8 if > 500), an amplitude penalty
\* (20 if max - min < 1.0, else 10 if < 1.5) and a variance penalty (only
\* with more than 2 samples: 15 if the population variance > 1.5, else 8 if
\* > 0.8), clamped to [0, 100]; and that is the score a counted repetition
\* gets for the accumulator it ended with.
C31_ScoreIsHundredMinusPenalties ==
    [][/\ call'.op = "calculateRepQuality"
          => call'.ret = ScoreByPenalties(call'.data)
       /\ (/\ call'.op = "processAcceleration"
           /\ feed' = Tail(feed)
           /\ repDetector'.repCount = repDetector.repCount + 1)
          => repDetector'.lastQuality = ScoreByPenalties(RepDataAtCall)]_vars

\* a score with the middle duration and variance penalties and no amplitude
\* penalty
C31_Witness ==
    /\ call.op = "calculateRepQuality"
    /\ call.data.duration = 1499
    /\ call.data.maxZ - call.data.minZ = 15 * RawStep
    /\ Len(call.data.zValues) = 4
    /\ call.ret = 100 - 8 - 8

-----------------------------------------------------------------------------
(* Claims about calculateThresholds, under SpecDerive *)

\* 4 * n * (population standard deviation of values), squared
SixteenDev(values) ==
    16 * (Len(values) * SumSq(values) - SumSeq(values) * SumSeq(values))

\* value is within two units (1/300 m/s^2, the two roundings of the model's
\* quotient) of mean + (tenths/10) * std, the mean and the population
\* standard deviation being those of values: with n samples of sum S and
\* std s, 10 n (value - 2) <= 10 S + tenths n s <= 10 n (value + 2), for
\* tenths = 8 or -8, compared by squares
NearMeanPlusStd(value, values, tenths) ==
    LET n == Len(values)
        lo == (10 * n * (value - 2) - 10 * SumSeq(values)) \div 2
        hi == (10 * n * (value + 2) - 10 * SumSeq(values)) \div 2
        d == SixteenDev(values)
    IN  IF tenths > 0
        THEN /\ lo <= 0 \/ lo * lo <= d
             /\ hi >= 0 /\ d <= hi * hi
        ELSE /\ lo <= 0 /\ d <= lo * lo
             /\ hi >= 0 \/ hi * hi <= d

\* mean + (tenths/10) * std of values is at most / at least bound
MeanPlusStdAtMost(bound, values, tenths) ==
    LET n == Len(values)
        gap == (10 * n * bound - 10 * SumSeq(values)) \div 2
        d == SixteenDev(values)
    IN  IF tenths > 0 THEN gap >= 0 /\ d <= gap * gap
        ELSE gap >= 0 \/ gap * gap <= d
MeanPlusStdAtLeast(bound, values, tenths) ==
    LET n == Len(values)
        gap == (10 * n * bound - 10 * SumSeq(values)) \div 2
        d == SixteenDev(values)
    IN  IF tenths > 0 THEN gap <= 0 \/ gap * gap <= d
        ELSE gap <= 0 /\ d <= gap * gap

\* C35: calculateThresholds returns null for zero records; otherwise its
\* threshold set has upwardAcceleration = max(0.4, avgMaxZ - 0.8 stdMaxZ),
\* downwardAcceleration = min(-0.3, avgMinZ + 0.8 stdMinZ), minAmplitude =
\* 0.6 avgAmplitude (each to within the model's rounding, 1/300 m/s^2),
\* minRepDuration 700, maxRepDuration 5000 and stableThreshold 0.25, avg and
\* std being the mean and the population standard deviation over the
\* records.
C35_ThresholdsFromRecords ==
    call.op = "calculateThresholds" =>
        LET records == call.repsData
            n == Len(records)
            maxima == Column(records, "maxZ")
            minima == Column(records, "minZ")
            floorUp == (4 * Unit) \div 10
            capDown == -((3 * Unit) \div 10)
        IN  IF n = 0 THEN call.ret = Null
            ELSE LET th == call.ret.thresholds
                 IN  /\ th.upwardAcceleration >= floorUp
                     /\ IF MeanPlusStdAtMost(floorUp, maxima, -8)
                        THEN th.upwardAcceleration = floorUp
                        ELSE NearMeanPlusStd(th.upwardAcceleration, maxima, -8)
                     /\ th.downwardAcceleration <= capDown
                     /\ IF MeanPlusStdAtLeast(capDown, minima, 8)
                        THEN th.downwardAcceleration >= capDown - 1
                        ELSE NearMeanPlusStd(th.downwardAcceleration, minima, 8)
                     /\ 10 * n * th.minAmplitude <= 6 * SumSeq(Column(records, "amplitude"))
                     /\ 6 * SumSeq(Column(records, "amplitude"))
                            < 10 * n * (th.minAmplitude + 1)
                     /\ th.minRepDuration = 700
                     /\ th.maxRepDuration = 5000
                     /\ 100 * th.stableThreshold = 25 * Unit
                     /\ DOMAIN th = {"upwardAcceleration", "downwardAcceleration",
                                     "minAmplitude", "minRepDuration", "maxRepDuration",
                                     "stableThreshold"}

\* thresholds derived from five records that differ, neither of the two
\* accelerations being at its limit
C35_Witness ==
    /\ call.op = "calculateThresholds"
    /\ Len(call.repsData) = MaxRecords
    /\ call.repsData[1] # call.repsData[2]
    /\ call.ret.thresholds.upwardAcceleration > (4 * Unit) \div 10
    /\ call.ret.thresholds.downwardAcceleration < -((3 * Unit) \div 10)
    /\ ~autoCalibrator.isCalibrating

\* C40: every threshold set the AutoCalibrator produces has
\* downwardAcceleration <= -0.3 < stableThreshold = 0.25 < 0.4 <=
\* upwardAcceleration, minAmplitude >= 0.48 and minRepDuration 700 <
\* maxRepDuration 5000, whatever movements were recorded.
C40_ThresholdsWellOrdered ==
    (/\ call.op \in {"calculateThresholds", "processValue"}
     /\ ~IsNull(call.ret)
     /\ HasThresholds(call.ret))
    => LET th == call.ret.thresholds
       IN  /\ 10 * th.downwardAcceleration <= -(3 * Unit)
           /\ -(3 * Unit) < 10 * th.stableThreshold
           /\ 100 * th.stableThreshold = 25 * Unit
           /\ 10 * th.stableThreshold < 4 * Unit
           /\ 4 * Unit <= 10 * th.upwardAcceleration
           /\ 100 * th.minAmplitude >= 48 * Unit
           /\ th.minRepDuration = 700 /\ th.maxRepDuration = 5000
           /\ th.minRepDuration < th.maxRepDuration

\* five movements of amplitude 0.8 around zero: upwardAcceleration and
\* minAmplitude are at their limits
C40_Witness ==
    /\ call.op = "calculateThresholds"
    /\ Len(call.repsData) = MaxRecords
    /\ \A i \in 1..Len(call.repsData) : 10 * call.repsData[i].amplitude = 8 * Unit
    /\ 10 * call.ret.thresholds.upwardAcceleration = 4 * Unit
    /\ 100 * call.ret.thresholds.minAmplitude = 48 * Unit
    /\ call.ret.thresholds.downwardAcceleration = -(4 * RawStep)

-----------------------------------------------------------------------------
(* Claims about the estimator's ring buffer, under SpecRing *)

\* C34: whenever addSample goes on to compute an estimate, the array it
\* transforms holds exactly the last fftSize samples passed to addSample, in
\* the order they arrived, the oldest first, wherever the write cursor is;
\* and every call that returns an estimate built that array.
C34_TimeDomainIsLastSamplesInOrder ==
    [][call'.op = "addSample" =>
          /\ ~IsNull(call'.timeDomain)
                 => /\ Len(fed') = fftSize
                    /\ call'.timeDomain = fed'
                    /\ call'.timeDomain[fftSize] = call'.value
          /\ ~IsNull(call'.ret) => ~IsNull(call'.timeDomain)]_vars

\* an estimate computed with the write cursor at the last position it can
\* have then, by an estimator that did not keep the first samples of the
\* stream
C34_Witness ==
    /\ call.op = "addSample"
    /\ ~IsNull(call.ret)
    /\ cadenceEstimator._index = fftSize - updateEvery
    /\ cadenceEstimator._samplesSeen < call.value
    /\ call.timeDomain[1] > 1
    /\ call.value = call.timeDomain[1] + fftSize - 1

-----------------------------------------------------------------------------
(* Claims about AutoCalibrator at the edges of its tests, under SpecCalEdge *)

\* C32: an active AutoCalibrator in IDLE goes to MOVING exactly on a sample
\* with |v| > 0.6, which becomes the accumulator's only value and sets its
\* start time; in MOVING it ends the movement only on a sample with
\* |v| < 0.3 that makes the accumulated count exceed 15, and it appends a
\* record and increments repCount exactly when, on such a sample,
\* 500 <= duration <= 5000 and amplitude >= 0.8; no other call counts.
C32_MovingEntryAndCandidate ==
    [][(IsCalCall /\ autoCalibrator.isCalibrating) =>
        LET ac == autoCalibrator
            after == autoCalibrator'
            z == call'.z
            t == call'.t
            counted == /\ after.repCount = ac.repCount + 1
                       /\ Len(after.repsData) = Len(ac.repsData) + 1
            unchangedCount == /\ after.repCount = ac.repCount
                              /\ after.repsData = ac.repsData
        IN  /\ ac.state = "IDLE" =>
                   /\ after.state = "MOVING" <=> 10 * Abs(z) > 6 * Unit
                   /\ after.state = "MOVING" =>
                          after.currentRepData =
                              [maxZ |-> z, minZ |-> z, zValues |-> <<z>>, startTime |-> t]
                   /\ after.state # "MOVING" => after = ac
            /\ (ac.state # "MOVING" /\ after.state = "MOVING") => ac.state = "IDLE"
            /\ ac.state # "MOVING" => unchangedCount
            /\ ac.state = "MOVING" =>
                   LET maxZ == Max(ac.currentRepData.maxZ, z)
                       minZ == Min(ac.currentRepData.minZ, z)
                       duration == t - ac.currentRepData.startTime
                       amplitude == maxZ - minZ
                       evaluated == /\ 10 * Abs(z) < 3 * Unit
                                    /\ Len(ac.currentRepData.zValues) + 1 > 15
                       valid == /\ 500 <= duration /\ duration <= 5000
                                /\ 10 * amplitude >= 8 * Unit
                   IN  /\ counted <=> (evaluated /\ valid)
                       /\ ~counted => unchangedCount
                       /\ counted =>
                              LET record == after.repsData[Len(after.repsData)]
                              IN  /\ record.maxZ = maxZ /\ record.minZ = minZ
                                  /\ record.amplitude = amplitude
                                  /\ record.duration = duration
                                  /\ SubSeq(after.repsData, 1, Len(ac.repsData)) = ac.repsData
                       /\ ~evaluated => after.state = "MOVING"
                       /\ after.currentRepData.zValues =
                              Append(ac.currentRepData.zValues, z)]_vars

\* a movement of exactly 500 ms has been recorded, after a longer one
C32_Witness ==
    /\ call.op = "processValue"
    /\ autoCalibrator.isCalibrating
    /\ autoCalibrator.state = "COOLDOWN"
    /\ autoCalibrator.repCount = 2
    /\ autoCalibrator.repsData[2].duration = 500
    /\ autoCalibrator.repsData[1].duration > 600
    /\ autoCalibrator.lastTransitionTime = now

\* C33 (as claimed): an active AutoCalibrator in COOLDOWN goes to IDLE on a
\* sample whose timestamp is 500 ms or more after lastTransitionTime, and
\* stays in COOLDOWN on an earlier one.
C33_CooldownEndsAtFiveHundred ==
    [][(/\ IsCalCall
        /\ autoCalibrator.isCalibrating
        /\ autoCalibrator.state = "COOLDOWN")
       => /\ call'.t - autoCalibrator.lastTransitionTime >= 500
                 => autoCalibrator'.state = "IDLE"
          /\ call'.t - autoCalibrator.lastTransitionTime < 500
                 => autoCalibrator'.state = "COOLDOWN"]_vars

-----------------------------------------------------------------------------
(* Claims about detectVerticalAxis and null readings, under SpecAxis *)

\* a reading all three of whose components are numbers
ValidReading(g) == ~IsNull(g) /\ ~IsNull(g.x) /\ ~IsNull(g.y) /\ ~IsNull(g.z)

\* the axis with the largest total, ties in the order x, y, z
LargestAxis(sx, sy, sz) ==
    IF sx >= sy /\ sx >= sz THEN "x" ELSE IF sy >= sz THEN "y" ELSE "z"

\* the step in which the handler of a detectVerticalAxis call is run
AxisHandlerRuns ==
    /\ dispatch.todo # <<>>
    /\ Current.fn = "axis"
    /\ dispatch'.todo = Tail(dispatch.todo)

\* C17: the handler of detectVerticalAxis counts a sample only if its three
\* components are non-null, adds their absolute values to the totals, and at
\* the fifth counted sample resolves to the axis with the largest total, ties
\* going to x, then y, then z; before the fifth it resolves nothing.
C17_AxisOfLargestTotal ==
    [][AxisHandlerRuns =>
        LET i == Current.task
            g == dispatch.ev.accelerationIncludingGravity
            before == tasks[i]
            after == tasks'[i]
        IN  IF ~ValidReading(g)
            THEN tasks' = tasks /\ micro' = micro
            ELSE /\ after.samplesCollected = before.samplesCollected + 1
                 /\ SumSeq(after.samples.x) = SumSeq(before.samples.x) + Abs(g.x.v)
                 /\ SumSeq(after.samples.y) = SumSeq(before.samples.y) + Abs(g.y.v)
                 /\ SumSeq(after.samples.z) = SumSeq(before.samples.z) + Abs(g.z.v)
                 /\ IF after.samplesCollected = SAMPLES_NEEDED
                    THEN micro' = Append(micro,
                             [task |-> i,
                              value |-> LargestAxis(SumSeq(after.samples.x),
                                                    SumSeq(after.samples.y),
                                                    SumSeq(after.samples.z))])
                    ELSE micro' = micro]_vars

\* five samples were counted out of six events, x and y tie above z, and the
\* call is about to resume with "x"
C17_Witness ==
    /\ micro # <<>>
    /\ LET i == Head(micro).task
       IN  /\ tasks[i].pc = "axisDone"
           /\ tasks[i].samplesCollected = SAMPLES_NEEDED
           /\ SumSeq(tasks[i].samples.x) = SumSeq(tasks[i].samples.y)
           /\ SumSeq(tasks[i].samples.z) > 0
           /\ Head(micro).value = "x"
    /\ used.events = SAMPLES_NEEDED + 1

\* the step in which the 2000 ms timeout of a detectVerticalAxis call fires
AxisTimeoutFires ==
    /\ TimerDue
    /\ timers[DueIndex].fn = "axisTimeout"
    /\ Len(timers') < Len(timers)

\* C18: when the 2000 ms timeout of a detectVerticalAxis call fires before
\* five valid samples were counted, the call resolves to "y" and its caller
\* resumes with that axis; a caller waiting on detectVerticalAxis always
\* eventually resumes, whether motion events arrive or not.
C18_TimeoutResolvesToY ==
    /\ [][(AxisTimeoutFires /\ ~tasks[timers[DueIndex].task].settled)
          => /\ tasks[timers[DueIndex].task].samplesCollected < SAMPLES_NEEDED
             /\ micro' = Append(micro, [task |-> timers[DueIndex].task, value |-> "y"])]_vars
    /\ [][(/\ micro # <<>>
           /\ tasks[Head(micro).task].pc = "axisDone"
           /\ micro' = Tail(micro))
          => detectedAxis' = Head(micro).value]_vars
    /\ (tasks # <<>> /\ tasks[1].pc = "axis")
           ~> (tasks # <<>> /\ tasks[1].pc \in {"delay", "delayDone", "done"})

\* a calibration resumed by the timeout after fewer than five valid samples
C18_Witness ==
    /\ tasks # <<>>
    /\ tasks[1].kind = "calib"
    /\ tasks[1].pc = "done"
    /\ tasks[1].samplesCollected \in 1..(SAMPLES_NEEDED - 1)
    /\ detectedAxis = "y"
    /\ isCalibrating

\* the resumptions with an axis queued for call i
ResumptionsOf(mq, i) ==
    Len(SelectSeq(mq, LAMBDA e : e.task = i /\ e.value \in {"x", "y", "z"}))

\* C19: a detectVerticalAxis call resolves once.  After its promise has
\* settled, from samples or from the timeout, its handler is no longer
\* subscribed, its sample count stays as it was, no step queues another
\* resumption of its caller with an axis, and the caller does not go back to
\* the await.
C19_ResolvesOnce ==
    [][\A i \in 1..Len(tasks) :
          /\ tasks'[i].settled =>
                 ~\E k \in 1..Len(listeners') : listeners'[k] = Listener("axis", i)
          /\ tasks[i].settled =>
                 /\ tasks'[i].settled
                 /\ tasks'[i].samplesCollected = tasks[i].samplesCollected
                 /\ tasks'[i].samples = tasks[i].samples
                 /\ ResumptionsOf(micro', i) <= ResumptionsOf(micro, i)
                 /\ tasks[i].pc # "axisDone" => tasks'[i].pc # "axisDone"]_vars

\* the call resolved from five samples, its caller has resumed and finished,
\* the 2000 ms timeout has fired since, and a later event was delivered
C19_Witness ==
    /\ tasks # <<>>
    /\ tasks[1].samplesCollected = SAMPLES_NEEDED
    /\ tasks[1].pc = "done"
    /\ ~\E k \in 1..Len(timers) : timers[k].fn = "axisTimeout"
    /\ used.events = SAMPLES_NEEDED + 1
    /\ now >= PageLoadTime + AxisTimeoutMs

\* a reading that is absent or lacks a component
HasNullComponent(acc) ==
    IsNull(acc) \/ IsNull(acc.x) \/ IsNull(acc.y) \/ IsNull(acc.z)

\* the step in which handleMotion or handleMotionCalibration is run
MotionHandlerRuns ==
    /\ dispatch.todo # <<>>
    /\ Current \in {MotionListener, CalibrationListener}
    /\ dispatch'.todo = Tail(dispatch.todo)

\* C20: handleMotion and handleMotionCalibration drop an event whose reading
\* has a null component: lastSampleTime, the filter window, the detector, the
\* cadence estimator, the calibrator and the chart buffers are as before.
C20_NullReadingChangesNothing ==
    [][(MotionHandlerRuns /\ HasNullComponent(accOf(dispatch.ev)))
       => UNCHANGED <<lastSampleTime, axisFilter, repDetector, cadenceEstimator,
                      autoCalibrator, dataPoints>>]_vars

-----------------------------------------------------------------------------
(* Claims about the motion handlers on a stream of events, under SpecStream *)

\* the handler about to run is in its mode and the rate limiter lets the
\* event through
HandlerAdmits ==
    /\ Current = MotionListener => isRunning /\ ~isCalibrating
    /\ Current = CalibrationListener => isCalibrating
    /\ now - lastSampleTime >= samplingInterval

\* the gravity-excluded reading is an object whose components are all null
\* and the gravity-included reading has a number in some component
OnlyGravityHasData(ev) ==
    /\ ~IsNull(ev.acceleration)
    /\ IsNull(ev.acceleration.x) /\ IsNull(ev.acceleration.y) /\ IsNull(ev.acceleration.z)
    /\ ~IsNull(ev.accelerationIncludingGravity)
    /\ ~HasNullComponent(ev.accelerationIncludingGravity)

\* C21: when event.acceleration is present with three null components and
\* accelerationIncludingGravity has numbers, the motion handlers process the
\* sample with the gravity-included values: the chart and the filter receive
\* them.
C21_FallsBackToGravity ==
    [][(MotionHandlerRuns /\ HandlerAdmits /\ OnlyGravityHasData(dispatch.ev))
       => LET g == dispatch.ev.accelerationIncludingGravity
          IN  /\ dataPoints' = updateChart(dataPoints, g.x.v, g.y.v, g.z.v)
              /\ axisFilter' =
                     addValue(axisFilter,
                              axisValueOf(detectedAxis, g.x.v, g.y.v, g.z.v)).f
              /\ acceptedAt' = Num(now)]_vars

\* the handler about to run is in its mode
HandlerInMode ==
    /\ Current = MotionListener => isRunning /\ ~isCalibrating
    /\ Current = CalibrationListener => isCalibrating

\* C22: a motion handler drops an event for its rate exactly when the event
\* arrives less than samplingInterval ms after the last sample that was
\* passed to the filter.
C22_DroppedExactlyWhenTooSoon ==
    [][(MotionHandlerRuns /\ HandlerInMode)
       => ((now - lastSampleTime < samplingInterval)
           <=> (~IsNull(acceptedAt) /\ now - acceptedAt.v < samplingInterval))]_vars

\* handleMotion has run for an event and passed its sample on
SampleAccepted == call'.op = "handleMotion" /\ call'.invoked # {}

\* C27: for every sample handleMotion accepts, the one handler run calls
\* axisFilter.addValue, then cadenceEstimator.addSample, then
\* repDetector.processAcceleration, each once: the filter gets the event's
\* value on the detected axis, the estimator and the detector both get the
\* average the filter returned for it, and the three components are left as
\* those calls leave them; while monitoring, no other step changes any of
\* the three, so each sees the samples in the order the events arrived.
C27_OneOrderedPass ==
    [][/\ SampleAccepted
          => LET acc == accOf(dispatch.ev)
                 axisValue == axisValueOf(detectedAxis, OrZero(acc.x), OrZero(acc.y),
                                          OrZero(acc.z))
                 smoothed == addValue(axisFilter, axisValue).ret
                 sent == call'.calls
             IN  /\ [i \in 1..Len(sent) |-> sent[i].to]
                        = <<"addValue", "addSample", "processAcceleration">>
                 /\ sent[1].value = axisValue
                 /\ sent[2].value = smoothed
                 /\ sent[3].value = smoothed /\ sent[3].timestamp = now
                 /\ axisFilter' = addValue(axisFilter, axisValue).f
                 /\ smoothed = getAverage(axisFilter')
                 /\ cadenceEstimator'._samplesSeen = cadenceEstimator._samplesSeen + 1
                 /\ cadenceEstimator'._ring[cadenceEstimator._index + 1] = smoothed
                 /\ repDetector' = processAcceleration(repDetector, smoothed, now)
                 /\ samplesInSession' = samplesInSession + 1
                 /\ dispatch'.todo = Tail(dispatch.todo)
       /\ (/\ isRunning /\ ~isCalibrating /\ isRunning' /\ ~isCalibrating'
           /\ <<axisFilter, cadenceEstimator, repDetector>>'
                  # <<axisFilter, cadenceEstimator, repDetector>>)
          => SampleAccepted]_vars

\* a later sample of a session has been passed on: the filter holds more
\* than one value and its average is not the value it was given
C27_Witness ==
    /\ call.op = "handleMotion"
    /\ call.invoked # {}
    /\ samplesInSession >= 2
    /\ call.calls[1].value # call.calls[2].value
    /\ call.calls[3].value = getAverage(axisFilter)
    /\ repDetector.state # "IDLE"

\* a time later than any the cycle in progress may still be counted at
MuchLater == now + 10 * 5000

\* C38: a RepDetector that has left IDLE comes back to IDLE only in a
\* processAcceleration call made in LOWERING, or in reset(); the phase a
\* call leaves depends on the phase, the value and the thresholds, not on
\* the time; a cycle already longer than maxRepDuration stays in progress,
\* with its start time and its growing accumulator, until a call takes it
\* from LOWERING to IDLE, and that call does not count it.
C38_NoTimeBasedAbandonment ==
    [][/\ (repDetector.state # "IDLE" /\ repDetector'.state = "IDLE")
              => \/ call'.op = "reset"
                 \/ IsRepCall /\ repDetector.state = "LOWERING"
       /\ IsRepCall
              => /\ repDetector'.state =
                        processAcceleration(repDetector, call'.z, MuchLater).state
                 /\ (/\ repDetector.state # "IDLE"
                     /\ call'.t - repDetector.currentRepStartTime
                            > repDetector.thresholds.maxRepDuration)
                        => /\ repDetector'.repCount = repDetector.repCount
                           /\ ~LoweringToIdle
                                  => /\ repDetector'.state # "IDLE"
                                     /\ repDetector'.currentRepStartTime
                                            = repDetector.currentRepStartTime
                                     /\ repDetector'.currentRepData.zValues =
                                            Append(repDetector.currentRepData.zValues,
                                                   call'.z)]_vars

\* a cycle that has lasted longer than maxRepDuration is lifted again at the
\* top and goes on
C38_Witness ==
    /\ call.op = "processAcceleration"
    /\ repDetector.state = "PULLING_UP"
    /\ Len(repDetector.currentRepData.zValues) >= 3
    /\ now - repDetector.currentRepStartTime > repDetector.thresholds.maxRepDuration

-----------------------------------------------------------------------------
(* Claims about the AutoCalibrator's life cycle, under SpecCal *)

\* C23: the AutoCalibrator is one-shot.  A processValue that returns a
\* threshold set, and a stopCalibration, leave it inactive; while inactive,
\* processValue returns null and changes nothing of the calibrator; only
\* startCalibration makes it active again, with repCount 0, no records and
\* state IDLE.
C23_OneShot ==
    [][/\ (IsCalCall /\ HasThresholds(call'.ret))
              => ~autoCalibrator'.isCalibrating
       /\ call'.op = "stopCalibration" => ~autoCalibrator'.isCalibrating
       /\ (IsCalCall /\ ~autoCalibrator.isCalibrating)
              => call'.ret = Null /\ autoCalibrator' = autoCalibrator
       /\ (~autoCalibrator.isCalibrating /\ autoCalibrator'.isCalibrating)
              => /\ call'.op = "startCalibration"
                 /\ autoCalibrator'.repCount = 0
                 /\ autoCalibrator'.repsData = <<>>
                 /\ autoCalibrator'.currentRepData = ClearedCalData
                 /\ autoCalibrator'.state = "IDLE"]_vars

\* after a successful calibration, a sample strong enough to start a
\* movement was processed and returned null
C23_Witness ==
    /\ call.op = "processValue"
    /\ call.ret = Null
    /\ 10 * Abs(call.z) > 6 * Unit
    /\ ~autoCalibrator.isCalibrating
    /\ emitted = 1
    /\ autoCalibrator.repCount = autoCalibrator.targetReps

-----------------------------------------------------------------------------
(* Claims about cancelling and stopping sessions, under Spec *)

\* C24: cancelling a calibration before the target count produces no
\* threshold set and discards the partial data: calibratedThresholds and the
\* stored copy keep their value, and the calibrator's records, accumulator
\* and active flag are cleared by the cancelling step.
C24_CancelDiscardsPartialData ==
    [][(isCalibrating /\ cancelled' /\ ~cancelled)
       => /\ UNCHANGED <<calibratedThresholds, storedThresholds>>
          /\ ~autoCalibrator'.isCalibrating
          /\ autoCalibrator'.repsData = <<>>
          /\ autoCalibrator'.currentRepData = ClearedCalData]_vars

\* C28: while a calibration is in progress (startBtn reads 'Detener
\* Calibracion'), a click on startBtn cancels it: the same step clears
\* isCalibrating and detaches handleMotionCalibration, and processValue is
\* reached only while startBtn has that label.
C28_StopButtonCancelsCalibration ==
    [][/\ (/\ ui.startBtn = "Detener Calibracion"
           /\ isCalibrating
           /\ isRunning /\ ~isRunning'
           /\ ui'.panel = ui.panel)
          => ~isCalibrating' /\ NotSubscribedAfter(CalibrationListener)
       /\ (call'.op = "handleMotionCalibration" /\ "processValue" \in call'.invoked)
          => ui.startBtn = "Detener Calibracion"]_vars

-----------------------------------------------------------------------------
(* Claims about setThresholds, reset and the phase graph, under SpecRep *)

\* C25: setThresholds(partial) replaces the threshold fields that partial
\* has, keeps every other threshold field, and changes nothing else of the
\* detector.
C25_SetThresholdsMergesOnly ==
    [][(call'.op = "setThresholds" /\ call.op # "setThresholds")
       => LET partial == call'.thresholds
          IN  /\ DOMAIN repDetector'.thresholds = DOMAIN repDetector.thresholds
              /\ \A k \in DOMAIN repDetector.thresholds :
                     repDetector'.thresholds[k] =
                         IF k \in DOMAIN partial THEN partial[k]
                         ELSE repDetector.thresholds[k]
              /\ [repDetector' EXCEPT !.thresholds = repDetector.thresholds]
                     = repDetector]_vars

\* a detector built with a custom minRepDuration got a new minAmplitude in
\* the middle of a repetition and kept the former
C25_Witness ==
    /\ call.op = "setThresholds"
    /\ "minAmplitude" \in DOMAIN call.thresholds
    /\ repDetector.thresholds.minAmplitude = 2 * Unit
    /\ repDetector.thresholds.minRepDuration = 200
    /\ repDetector.state = "PULLING_UP"

\* C26: reset() leaves the detector in IDLE with repCount 0, a cleared
\* accumulator, currentRepStartTime null, lastQuality 0 and lastRepTime 0,
\* and equal in every field to a detector newly constructed with the same
\* thresholds, so that the two behave alike on every later sample.
C26_ResetEqualsFresh ==
    [][(call'.op = "reset" /\ call.op # "reset")
       => /\ repDetector'.state = "IDLE"
          /\ repDetector'.repCount = 0
          /\ repDetector'.currentRepData = ClearedRepData
          /\ repDetector'.currentRepStartTime = Null
          /\ repDetector'.lastQuality = 0
          /\ repDetector'.lastRepTime = 0
          /\ repDetector' = newRepDetector(repDetector.thresholds)
          /\ \A z \in RepInputs, dt \in RepDts :
                 processAcceleration(repDetector', z, now + dt)
                     = processAcceleration(newRepDetector(repDetector.thresholds),
                                           z, now + dt)]_vars

\* a detector with changed thresholds was reset after it had counted a
\* repetition
C26_Witness ==
    /\ call.op = "reset"
    /\ call.before.repCount > 0
    /\ call.before.quality > 0
    /\ repDetector.thresholds # defaultThresholds
    /\ repDetector.repCount = 0

\* C29: a processAcceleration call leaves the phase as it is or moves it
\* along one of the edges IDLE -> PULLING_UP (v > up), PULLING_UP -> AT_TOP
\* (down < v < stable), AT_TOP -> LOWERING (v < down), AT_TOP -> PULLING_UP
\* (v > up), LOWERING -> IDLE (down < v < up); currentRepStartTime is
\* assigned only on the edge IDLE -> PULLING_UP, with the call's timestamp.
C29_PhaseGraph ==
    [][IsRepCall =>
        LET from == repDetector.state
            to == repDetector'.state
            v == call'.z
            th == repDetector.thresholds
        IN  /\ \/ to = from
               \/ from = "IDLE" /\ to = "PULLING_UP" /\ v > th.upwardAcceleration
               \/ /\ from = "PULLING_UP" /\ to = "AT_TOP"
                  /\ th.downwardAcceleration < v /\ v < th.stableThreshold
               \/ from = "AT_TOP" /\ to = "LOWERING" /\ v < th.downwardAcceleration
               \/ from = "AT_TOP" /\ to = "PULLING_UP" /\ v > th.upwardAcceleration
               \/ /\ from = "LOWERING" /\ to = "IDLE"
                  /\ th.downwardAcceleration < v /\ v < th.upwardAcceleration
            /\ ~SameValue(repDetector'.currentRepStartTime,
                          repDetector.currentRepStartTime)
                   => /\ from = "IDLE" /\ to = "PULLING_UP"
                      /\ repDetector'.currentRepStartTime = call'.t]_vars

\* the detector is back in IDLE after a counted repetition that went through
\* every phase
C29_Witness ==
    /\ call.op = "processAcceleration"
    /\ repDetector.state = "IDLE"
    /\ repDetector.repCount = 1
    /\ repDetector.lastRepTime = now
    /\ used.calls >= 4

=============================================================================
